---- MODULE Spec2Model ----
(***************************************************************************)
(* Post orchestration service of jeremyjsx/entries: internal/posts         *)
(* (Service, the Postgres repository and its SQL) over a relational        *)
(* metadata store and an S3 blob store, with the markdown image pipeline.  *)
(* Each Service method is one action; every store call of a method can     *)
(* fail independently, the set of failing call sites being an input of     *)
(* the action.                                                             *)
(***************************************************************************)
EXTENDS Integers, Sequences, FiniteSets, TLC

VARIABLES rows, blobs, nextId, nextUUID, last, pending, publisher

vars == <<rows, blobs, nextId, nextUUID, last, pending, publisher>>

(***************************************************************************)
(* Bounds of the model.                                                    *)
(***************************************************************************)
\* number of rows the metadata store ever inserts (ids 1..MaxPostId)
MaxPostId == 2
\* number of identifiers uuid.New() hands to the image pipeline
MaxUUID == 1
\* number of store calls that fail within one method call
MaxFaults == 2
\* embedded images in a document with several
MaxImages == 2

Slugs == {"a", "b"}
\* the callers whose calls may run at the same time
Callers == {"c1", "c2"}
\* the titles CreatePost is called with, and the ones UpdatePost changes to
CreateTitles == {"t1"}
UpdateTitles == {"t2"}

\* ServiceConfig.S3PublicBaseURL of the service under study
s3PublicBaseURL == "https://cdn.example.com"

\* a nil *string argument of UpdatePost
Nil == "<nil>"

(***************************************************************************)
(* model.go: Status                                                        *)
(***************************************************************************)
Draft == "draft"
Published == "published"

(***************************************************************************)
(* errors.  The sentinel errors of the posts package and the wrapping      *)
(* prefixes the Service uses; ErrDB is any other error a repository call   *)
(* passes through.                                                         *)
(***************************************************************************)
OK == "ok"
ErrNotFound == "post not found"
ErrSlugExists == "slug already exists"
ErrUpload == "upload to s3"
ErrDownload == "download current content"
ErrDownloadContent == "download from s3"
ErrDeleteS3 == "delete from s3"
ErrDeleteImages == "delete images from s3"
ErrDB == "db error"
\* storage.ErrNotFound, and any other error of an S3 call
ErrNoSuchKey == "storage: not found"
ErrS3 == "s3 error"
\* any error of the event publisher
ErrAMQP == "amqp error"

(***************************************************************************)
(* Blob keys.  A key is the string "posts/{slug}.md" or                    *)
(* "posts/{slug}/images/{id}.{ext}"; slugs contain neither '/' nor '.', so *)
(* the string is determined by, and determines, the fields below.          *)
(***************************************************************************)
EmptyKey == [kind |-> "none", slug |-> "", id |-> 0, ext |-> ""]
ContentKey(slug) == [kind |-> "md", slug |-> slug, id |-> 0, ext |-> "md"]
ImageKey(slug, id, ext) == [kind |-> "img", slug |-> slug, id |-> id, ext |-> ext]
\* strings.HasPrefix(key, "posts/{slug}/images/")
UnderImagesPrefix(key, slug) == key.kind = "img" /\ key.slug = slug

(***************************************************************************)
(* Markdown documents: a sequence of parts.  A part is plain text, an      *)
(* embedded data-URL image ![alt](data:image/sub;base64,b64) or, after the *)
(* pipeline, an image reference ![alt](url).                               *)
(***************************************************************************)
NoURL == [base |-> "", key |-> EmptyKey]
Text(s) == [t |-> "text", txt |-> s, alt |-> "", sub |-> "", b64 |-> "", url |-> NoURL]
Img(alt, sub, b64) == [t |-> "img", txt |-> "", alt |-> alt, sub |-> sub, b64 |-> b64, url |-> NoURL]
Ref(alt, url) == [t |-> "ref", txt |-> "", alt |-> alt, sub |-> "", b64 |-> "", url |-> url]
\* the decoded bytes of an image, as stored in its blob
Bin(data) == [t |-> "bin", txt |-> data, alt |-> "", sub |-> "", b64 |-> "", url |-> NoURL]

Docs ==
  { <<Text("x")>>,
    <<Text("y"), Img("pic", "png", "QUJD")>> }

\* documents with one embedded image each: every allowed subtype, an
\* upper-case one, subtypes that are not allowed (bmp matches
\* dataURLImageRegex, svg+xml does not), and payloads with line breaks, of
\* no base64, of exactly 5 MiB and of one byte more
ImageDocs ==
  { <<Text("y"), Img(alt, sub, "QUJD")>> :
      alt \in {"pic"}, sub \in {"png", "jpeg", "jpg", "webp", "gif", "bmp", "svg+xml"} }
  \cup { <<Text("y"), Img("", "PNG", "QUJD")>> }
  \cup { <<Text("y"), Img("pic", "png", b64)>> : b64 \in {"QU\nJD\r", "@@@", "MAX", "BIG"} }

\* documents of MaxImages embedded images with text before, between and
\* after them: an acceptable image, one of a subtype that is not allowed
\* and one whose payload is not base64, in every order
SiblingImages ==
  {Img("p", "png", "QUJD"), Img("q", "bmp", "QUJD"), Img("r", "gif", "@@@")}
Interleave(imgs) ==
  [k \in 1..(2 * Len(imgs) + 1) |->
     IF k % 2 = 1 THEN Text(ToString(k)) ELSE imgs[k \div 2]]
SiblingDocs == {Interleave(imgs) : imgs \in [1..MaxImages -> SiblingImages]}

NoDoc == <<>>
NoPost == [id |-> 0, title |-> "", slug |-> "", s3Key |-> EmptyKey, status |-> ""]

(***************************************************************************)
(* Store calls a method made, in order (observed by the properties only).  *)
(***************************************************************************)
Call(svc, op, key, slug, id, title, err) ==
  [svc |-> svc, op |-> op, key |-> key, slug |-> slug, id |-> id, title |-> title, err |-> err]
RepoCall(op, slug, id, err) == Call("repo", op, EmptyKey, slug, id, "", err)
StorageCall(op, key, ok) == Call("storage", op, key, "", 0, "", IF ok THEN OK ELSE ErrS3)
\* a DeletePrefix call; n is the number of keys it removed
PrefixCall(slug, ok, n) ==
  Call("storage", "DeletePrefix", EmptyKey, slug, n, "", IF ok THEN OK ELSE ErrS3)
NotifyCall(id, slug, title, ok) ==
  Call("publisher", "PublishPostPublished", EmptyKey, slug, id, title, IF ok THEN OK ELSE ErrAMQP)

CallsOf(calls, svc, op) == {i \in 1..Len(calls) : calls[i].svc = svc /\ calls[i].op = op}
CallsTo(calls, svc) == {i \in 1..Len(calls) : calls[i].svc = svc}

(***************************************************************************)
(* Metadata store: the posts table with its unique index on slug, and the  *)
(* queries of the Postgres repository.                                     *)
(***************************************************************************)
RepoResult(err, rs, post) == [err |-> err, rows |-> rs, post |-> post]

RowsWithSlug(rs, slug) == {r \in rs : r.slug = slug}
RowsWithId(rs, id) == {r \in rs : r.id = id}

\* the insert without the unique index on slug
RepoCreateNoIndex(rs, id, title, slug, s3Key) ==
  LET p == [id |-> id, title |-> title, slug |-> slug, s3Key |-> s3Key, status |-> Draft]
  IN RepoResult(OK, rs \cup {p}, p)

RepoCreate(rs, id, title, slug, s3Key) ==
  IF RowsWithSlug(rs, slug) # {}
  THEN RepoResult(ErrSlugExists, rs, NoPost)
  ELSE LET p == [id |-> id, title |-> title, slug |-> slug, s3Key |-> s3Key, status |-> Draft]
       IN RepoResult(OK, rs \cup {p}, p)

RepoGetBySlug(rs, slug) ==
  IF RowsWithSlug(rs, slug) = {}
  THEN RepoResult(ErrNotFound, rs, NoPost)
  ELSE RepoResult(OK, rs, CHOOSE r \in rs : r.slug = slug)

\* the update query also resetting the status
RepoUpdateResetStatus(rs, id, title, slug, s3Key) ==
  IF RowsWithId(rs, id) = {}
  THEN RepoResult(ErrNotFound, rs, NoPost)
  ELSE IF \E r \in rs : r.slug = slug /\ r.id # id
  THEN RepoResult(ErrSlugExists, rs, NoPost)
  ELSE LET old == CHOOSE r \in rs : r.id = id
           p == [old EXCEPT !.title = title, !.slug = slug, !.s3Key = s3Key,
                            !.status = Draft]
       IN RepoResult(OK, (rs \ {old}) \cup {p}, p)

RepoUpdate(rs, id, title, slug, s3Key) ==
  IF RowsWithId(rs, id) = {}
  THEN RepoResult(ErrNotFound, rs, NoPost)
  ELSE IF \E r \in rs : r.slug = slug /\ r.id # id
  THEN RepoResult(ErrSlugExists, rs, NoPost)
  ELSE LET old == CHOOSE r \in rs : r.id = id
           p == [old EXCEPT !.title = title, !.slug = slug, !.s3Key = s3Key]
       IN RepoResult(OK, (rs \ {old}) \cup {p}, p)

RepoDelete(rs, slug) == {r \in rs : r.slug # slug}

\* the publish query without its status = 'draft' condition
RepoPublishAnyStatus(rs, slug) ==
  IF RowsWithSlug(rs, slug) = {}
  THEN RepoResult(ErrNotFound, rs, NoPost)
  ELSE LET old == CHOOSE r \in rs : r.slug = slug
           p == [old EXCEPT !.status = Published]
       IN RepoResult(OK, (rs \ {old}) \cup {p}, p)

RepoPublish(rs, slug) ==
  IF {r \in rs : r.slug = slug /\ r.status = Draft} = {}
  THEN RepoResult(ErrNotFound, rs, NoPost)
  ELSE LET old == CHOOSE r \in rs : r.slug = slug /\ r.status = Draft
           p == [old EXCEPT !.status = Published]
       IN RepoResult(OK, (rs \ {old}) \cup {p}, p)

(***************************************************************************)
(* Blob store.  blobs maps each existing key to its body.                  *)
(***************************************************************************)
StorageUpload(bs, key, body) ==
  [k \in DOMAIN bs \cup {key} |-> IF k = key THEN body ELSE bs[k]]

StorageExists(bs, key) == key \in DOMAIN bs

StorageDelete(bs, key) == [k \in DOMAIN bs \ {key} |-> bs[k]]

StorageDeletePrefix(bs, slug) ==
  [k \in {x \in DOMAIN bs : ~UnderImagesPrefix(x, slug)} |-> bs[k]]


(***************************************************************************)
(* Failing call sites.  A method's input F is the set of its store calls   *)
(* that return an error (a failed call leaves the store unchanged); the    *)
(* upload of the image at part i of the document is the site <<"Image",i>>.*)
(***************************************************************************)
Fault(site) == <<site, 0>>
ImageFault(i) == <<"Image", i>>

(***************************************************************************)
(* service.go: the image pipeline.                                         *)
(***************************************************************************)
maxImageSize == 5242880

\* dataURLImageRegex: the subtype is [a-zA-Z]+ and the payload [^)]+
AlphaSubtypes == {"png", "PNG", "jpeg", "jpg", "webp", "gif", "bmp"}
MatchesRegex(p) == p.t = "img" /\ p.sub \in AlphaSubtypes /\ p.b64 # ""

\* the subtype taken as written
ToLowerNone(sub) == sub

\* strings.ToLower on the subtypes of the model
ToLower(sub) == IF sub = "PNG" THEN "png" ELSE sub

allowedTypes ==
  [ext \in {"png", "jpeg", "jpg", "webp", "gif"} |->
     IF ext = "png" THEN "image/png"
     ELSE IF ext = "webp" THEN "image/webp"
     ELSE IF ext = "gif" THEN "image/gif"
     ELSE "image/jpeg"]

\* strings.ReplaceAll(strings.ReplaceAll(b64, "\n", ""), "\r", "")
StripNewlines(b64) == IF b64 = "QU\nJD\r" THEN "QUJD" ELSE b64

\* base64.StdEncoding.DecodeString on the payloads of the model: "QUJD" is
\* "ABC" (CR and LF are skipped by the decoder too); "MAX" and "BIG" stand
\* for payloads that decode to maxImageSize and maxImageSize + 1 bytes;
\* anything else is not base64.
DecodeString(b64) ==
  IF b64 \in {"QUJD", "QU\nJD\r"} THEN [ok |-> TRUE, data |-> "ABC", len |-> 3]
  ELSE IF b64 = "MAX" THEN [ok |-> TRUE, data |-> "max", len |-> maxImageSize]
  ELSE IF b64 = "BIG" THEN [ok |-> TRUE, data |-> "big", len |-> maxImageSize + 1]
  ELSE [ok |-> FALSE, data |-> "", len |-> 0]

\* s3PublicURL: base + "/" + key, or the bucket URL when no base is configured
S3PublicURL(base, key) ==
  IF base # "" THEN [base |-> base, key |-> key]
  ELSE [base |-> "https://bucket.s3.region.amazonaws.com", key |-> key]

\* an identifier generator that hands out the same identifier again
UuidNewStuck(n) == n

\* uuid.New(): identifiers are drawn in turn, n being the next one
UuidNew(n) == n + 1

\* the pipeline dropping the text of an image whose upload failed
UploadFailedDropped(p) == Text("")

\* if err := s.storage.Upload(...); err != nil { return match }
UploadFailed(p) == p

\* the upload of the image matched at part i of the document
ImageUploadCall(key, i, ok) ==
  Call("storage", "Upload", key, "", i, "", IF ok THEN OK ELSE ErrS3)

\* the callback leaving every image after a failed upload as it was
ReplaceMatchGivingUp(slug, p, i, st, F, base) ==
  LET ext == ToLower(p.sub)
      dec == DecodeString(StripNewlines(p.b64))
      key == ImageKey(slug, st.uuid, ext)
      keep == [st EXCEPT !.out = Append(@, p)]
  IN IF \E j \in DOMAIN st.calls : st.calls[j].err # OK THEN keep
     ELSE IF ext \notin DOMAIN allowedTypes THEN keep
     ELSE IF ~dec.ok \/ dec.len > maxImageSize THEN keep
     ELSE IF ImageFault(i) \in F
     THEN [st EXCEPT !.out = Append(@, UploadFailed(p)),
                     !.uuid = UuidNew(@),
                     !.calls = Append(@, ImageUploadCall(key, i, FALSE))]
     ELSE [out |-> Append(st.out, Ref(p.alt, S3PublicURL(base, key))),
           blobs |-> StorageUpload(st.blobs, key, <<Bin(dec.data)>>),
           uuid |-> UuidNew(st.uuid),
           calls |-> Append(st.calls, ImageUploadCall(key, i, TRUE))]

\* the callback of ReplaceAllStringFunc on the match at part i; st carries
\* the output so far, the blob store, the next uuid and the calls made
ReplaceMatch(slug, p, i, st, F, base) ==
  LET ext == ToLower(p.sub)
      dec == DecodeString(StripNewlines(p.b64))
      key == ImageKey(slug, st.uuid, ext)
      keep == [st EXCEPT !.out = Append(@, p)]
  IN IF ext \notin DOMAIN allowedTypes THEN keep
     ELSE IF ~dec.ok \/ dec.len > maxImageSize THEN keep
     ELSE IF ImageFault(i) \in F
     THEN [st EXCEPT !.out = Append(@, UploadFailed(p)),
                     !.uuid = UuidNew(@),
                     !.calls = Append(@, ImageUploadCall(key, i, FALSE))]
     ELSE [out |-> Append(st.out, Ref(p.alt, S3PublicURL(base, key))),
           blobs |-> StorageUpload(st.blobs, key, <<Bin(dec.data)>>),
           uuid |-> UuidNew(st.uuid),
           calls |-> Append(st.calls, ImageUploadCall(key, i, TRUE))]

RECURSIVE ProcessParts(_, _, _, _, _, _)
ProcessParts(slug, content, i, st, F, base) ==
  IF i > Len(content) THEN st
  ELSE IF ~MatchesRegex(content[i])
  THEN ProcessParts(slug, content, i + 1, [st EXCEPT !.out = Append(@, content[i])], F, base)
  ELSE ProcessParts(slug, content, i + 1, ReplaceMatch(slug, content[i], i, st, F, base), F, base)

ProcessMarkdownImages(slug, content, bs, uuid, F, base) ==
  ProcessParts(slug, content, 1,
               [out |-> <<>>, blobs |-> bs, uuid |-> uuid, calls |-> <<>>], F, base)

\* the matches of dataURLImageRegex, each of which may draw a uuid
MatchIndexes(content) == {i \in 1..Len(content) : MatchesRegex(content[i])}
Matches(content) == Cardinality(MatchIndexes(content))

\* the fault inputs of a method with call sites `sites` given a document
FaultSets(sites, content) ==
  {F \in SUBSET (sites \cup {ImageFault(i) : i \in MatchIndexes(content)}) :
     Cardinality(F) <= MaxFaults}


(***************************************************************************)
(* What a method leaves behind: the stores, the counters, and in last the  *)
(* call with its arguments, the error or result it returned, and the store *)
(* calls it made.                                                          *)
(***************************************************************************)
Outcome(rs, bs, id, uuid, l) ==
  [rows |-> rs, blobs |-> bs, nextId |-> id, nextUUID |-> uuid, last |-> l]

LastOp(op, slug, title, newSlug, hasContent, content, err, post, body, processed, calls) ==
  [op |-> op, slug |-> slug, title |-> title, newSlug |-> newSlug,
   hasContent |-> hasContent, content |-> content, err |-> err, post |-> post,
   body |-> body, processed |-> processed, calls |-> calls]

(***************************************************************************)
(* service.go: CreatePost                                                  *)
(***************************************************************************)
CreateFaults == {Fault("Create"), Fault("Upload"), Fault("RepoDelete")}

\* CreatePost without the compensating delete
CompensateCreateNone(rs, slug, F) == rs

\* _ = s.repo.Delete(ctx, slug): the compensating delete, its error dropped
CompensateCreate(rs, slug, F) ==
  IF Fault("RepoDelete") \in F THEN rs ELSE RepoDelete(rs, slug)

\* CreatePost uploading the text it was given instead of the pipeline's output
CreateUploadBodyRaw(content, processed) == content

\* the body CreatePost uploads at s3Key: the pipeline's output
CreateUploadBody(content, processed) == processed

\* CreatePost returning the error of the compensating delete when it fails
CreateUploadErrCompensation(F) == IF Fault("RepoDelete") \in F THEN ErrDB ELSE ErrUpload

\* _ = s.repo.Delete(ctx, slug); return nil, fmt.Errorf("upload to s3: %w", err)
CreateUploadErr(F) == ErrUpload

CreatePostRun(title, slug, content, F) ==
  LET s3Key == ContentKey(slug)
      cr == IF Fault("Create") \in F
            THEN RepoResult(ErrDB, rows, NoPost)
            ELSE RepoCreate(rows, nextId, title, slug, s3Key)
      c1 == <<RepoCall("Create", slug, 0, cr.err)>>
      id == IF cr.err = OK THEN nextId + 1 ELSE nextId
      pm == ProcessMarkdownImages(slug, content, blobs, nextUUID, F, s3PublicBaseURL)
      c2 == c1 \o pm.calls
      L(err, post, calls) ==
        LastOp("CreatePost", slug, title, Nil, TRUE, content, err, post, NoDoc, pm.out, calls)
  IN IF cr.err # OK
     THEN Outcome(rows, blobs, id, nextUUID,
                  LastOp("CreatePost", slug, title, Nil, TRUE, content, cr.err, NoPost, NoDoc, NoDoc, c1))
     ELSE IF Fault("Upload") \in F
     THEN Outcome(CompensateCreate(cr.rows, slug, F), pm.blobs, id, pm.uuid,
                  L(CreateUploadErr(F), NoPost,
                    c2 \o <<StorageCall("Upload", s3Key, FALSE),
                            RepoCall("Delete", slug, 0,
                                     IF Fault("RepoDelete") \in F THEN ErrDB ELSE OK)>>))
     ELSE Outcome(cr.rows,
                  StorageUpload(pm.blobs, s3Key, CreateUploadBody(content, pm.out)),
                  id, pm.uuid,
                  L(OK, cr.post, c2 \o <<StorageCall("Upload", s3Key, TRUE)>>))

(***************************************************************************)
(* service.go: GetPostContent                                              *)
(***************************************************************************)
GetContentFaults == {Fault("GetBySlug"), Fault("Download")}

\* S3Storage.Download: storage.ErrNotFound for a key that does not exist
\* (NoSuchKey), the client's error for a call that fails otherwise
StorageDownloadErr(bs, key, failed) ==
  IF failed THEN ErrS3 ELSE IF ~StorageExists(bs, key) THEN ErrNoSuchKey ELSE OK

\* GetPostContent wrapping every error of the download alike
DownloadErrWrapped(err) == ErrDownloadContent

\* if err == storage.ErrNotFound { return nil, ErrNotFound }; any other
\* error is wrapped as "download from s3"
DownloadErr(err) == IF err = ErrNoSuchKey THEN ErrNotFound ELSE ErrDownloadContent

GetPostContentRun(slug, F) ==
  LET gr == IF Fault("GetBySlug") \in F
            THEN RepoResult(ErrDB, rows, NoPost)
            ELSE RepoGetBySlug(rows, slug)
      c1 == <<RepoCall("GetBySlug", slug, 0, gr.err)>>
      key == gr.post.s3Key
      dl == StorageDownloadErr(blobs, key, Fault("Download") \in F)
      L(err, body, calls) ==
        LastOp("GetPostContent", slug, Nil, Nil, FALSE, NoDoc, err, NoPost, body, NoDoc, calls)
  IN IF gr.err # OK THEN Outcome(rows, blobs, nextId, nextUUID, L(gr.err, NoDoc, c1))
     ELSE IF dl # OK
     THEN Outcome(rows, blobs, nextId, nextUUID,
                  L(DownloadErr(dl), NoDoc,
                    c1 \o <<Call("storage", "Download", key, "", 0, "", dl)>>))
     ELSE Outcome(rows, blobs, nextId, nextUUID,
                  L(OK, blobs[key], c1 \o <<StorageCall("Download", key, TRUE)>>))

(***************************************************************************)
(* service.go: ListPosts.  page and perPage are Go ints (64 bits); the     *)
(* repository hands limit and offset to the query as int32.  The checker's *)
(* integers are 32 bits wide, so the int (page-1)*perPage is kept as the   *)
(* pair hi * 2^20 + lo, which is exact for every page of 32 bits and       *)
(* perPage <= 100 (no such product reaches 2^63).                          *)
(***************************************************************************)
Limb == 1024 * 1024

\* the int x
Wide(x) == [hi |-> x \div Limb, lo |-> x % Limb]

\* the int p * n, for 0 <= n <= 100
WideMul(p, n) ==
  LET low == (p % Limb) * n
  IN [hi |-> (p \div Limb) * n + low \div Limb, lo |-> low % Limb]

\* int32(w): the low 32 bits of w, in two's complement
Int32(w) ==
  LET h == w.hi % 4096
  IN IF h >= 2048 THEN (h - 4096) * Limb + w.lo ELSE h * Limb + w.lo

\* if page < 1 { page = 1 }
NormalizePage(page) == IF page < 1 THEN 1 ELSE page

\* if perPage < 1 || perPage > 100 { perPage = 20 }
NormalizePerPage(perPage) == IF perPage < 1 \/ perPage > 100 THEN 20 ELSE perPage

\* the division without the rounding up
TotalPagesFloor(total, perPage) == total \div perPage

\* totalPages := int(total) / perPage, one more if int(total)%perPage > 0
\* (total is a COUNT(*), never negative)
TotalPages(total, perPage) ==
  total \div perPage + (IF total % perPage > 0 THEN 1 ELSE 0)

\* WHERE (status IS NULL OR status = $status)
RowsWithStatus(rs, status) == {r \in rs : status = Nil \/ r.status = status}

\* ORDER BY created_at DESC: ids are handed out in the order of creation
NewestFirst(rs) ==
  CHOOSE s \in [1..Cardinality(rs) -> rs] :
    \A i, j \in 1..Cardinality(rs) : i < j => s[i].id > s[j].id

\* LIMIT $1 OFFSET $2 on the ordered rows
LimitOffset(s, limit, offset) ==
  IF offset >= Len(s) THEN <<>>
  ELSE SubSeq(s, offset + 1, IF limit < Len(s) - offset THEN offset + limit ELSE Len(s))

\* postgresRepository.List: the query with int32(params.Limit) and
\* int32(params.Offset); PostgreSQL rejects a negative LIMIT or OFFSET
RepoList(rs, params) ==
  LET limit == Int32(Wide(params.limit))
      offset == Int32(params.offset)
  IN [limit |-> limit, offset |-> offset,
      err |-> IF limit < 0 \/ offset < 0 THEN ErrDB ELSE OK,
      posts |-> IF limit < 0 \/ offset < 0 THEN <<>>
                ELSE LimitOffset(NewestFirst(RowsWithStatus(rs, params.status)), limit, offset)]

\* postgresRepository.Count: SELECT COUNT(*) under the same filter
RepoCount(rs, status) == Cardinality(RowsWithStatus(rs, status))

\* a List or Count call: the ListParams handed to the repository and the
\* LIMIT and OFFSET its query carried
ListCall(op, params, limit, offset, err) ==
  [svc |-> "repo", op |-> op, key |-> EmptyKey, slug |-> "", id |-> 0, title |-> "",
   err |-> err, params |-> params, limit |-> limit, offset |-> offset]

NoResult == [posts |-> <<>>, total |-> 0, page |-> 0, perPage |-> 0, totalPages |-> 0]

ListFaults == {Fault("List"), Fault("Count")}

ListPostsRun(page, perPage, status, F) ==
  LET pageN == NormalizePage(page)
      perPageN == NormalizePerPage(perPage)
      params == [limit |-> perPageN, offset |-> WideMul(pageN - 1, perPageN),
                 status |-> status]
      lr == RepoList(rows, params)
      lerr == IF Fault("List") \in F THEN ErrDB ELSE lr.err
      c1 == <<ListCall("List", params, lr.limit, lr.offset, lerr)>>
      cerr == IF Fault("Count") \in F THEN ErrDB ELSE OK
      total == RepoCount(rows, status)
      c2 == c1 \o <<ListCall("Count", params, 0, 0, cerr)>>
      L(err, result, calls) ==
        [op |-> "ListPosts", slug |-> Nil, title |-> Nil, newSlug |-> Nil,
         hasContent |-> FALSE, content |-> NoDoc, err |-> err, post |-> NoPost,
         body |-> NoDoc, processed |-> NoDoc, calls |-> calls,
         page |-> page, perPage |-> perPage, status |-> status, result |-> result]
  IN IF lerr # OK THEN Outcome(rows, blobs, nextId, nextUUID, L(lerr, NoResult, c1))
     ELSE IF cerr # OK THEN Outcome(rows, blobs, nextId, nextUUID, L(cerr, NoResult, c2))
     ELSE Outcome(rows, blobs, nextId, nextUUID,
                  L(OK, [posts |-> lr.posts, total |-> total, page |-> pageN,
                         perPage |-> perPageN,
                         totalPages |-> TotalPages(total, perPageN)], c2))

(***************************************************************************)
(* service.go: UpdatePost                                                  *)
(***************************************************************************)
UpdateFaults ==
  {Fault("GetBySlug"), Fault("Upload"), Fault("Download"), Fault("Delete"), Fault("Update")}

\* the old key deleted, or migrated from, whether or not the slug changes
SlugChangedAlways(currentSlug, slugToUse) == TRUE

\* currentSlug != slugToUse: the old key is deleted, or migrated from
SlugChanged(currentSlug, slugToUse) == currentSlug # slugToUse

\* UpdatePost never deleting the old key
BestEffortDeleteNever(bs, key, F) == bs

\* _ = s.storage.Delete(ctx, oldKey): best effort, its error dropped
BestEffortDelete(bs, key, F) ==
  IF Fault("Delete") \in F THEN bs ELSE StorageDelete(bs, key)

\* UpdatePost writing the title argument as given, nil included
TitleToUseGiven(title, post) == IF title # Nil THEN title ELSE ""

\* titleToUse := post.Title; if title != nil { titleToUse = *title }
TitleToUse(title, post) == IF title # Nil THEN title ELSE post.title

\* UpdatePost going on after a download that failed as a call
MoveDownloadFatalOnlyMissing(err) == err = ErrNoSuchKey

\* body, err := s.storage.Download(ctx, post.S3Key); if err != nil: fatal
MoveDownloadFatal(err) == err # OK

\* UpdatePost returning the error of the old-key deletion
OldKeyDeleteErrReturned(err) == err

\* _ = s.storage.Delete(...): the error of the old-key deletion is dropped
OldKeyDeleteErr(err) == OK

\* UpdatePost going on after an upload that failed
UpdateUploadErrDropped(F) == OK

\* if err := s.storage.Upload(...); err != nil: "upload to s3", fatal
UpdateUploadErr(F) == IF Fault("Upload") \in F THEN ErrUpload ELSE OK

UpdatePostRun(currentSlug, title, newSlug, hasContent, content, F) ==
  LET gr == IF Fault("GetBySlug") \in F
            THEN RepoResult(ErrDB, rows, NoPost)
            ELSE RepoGetBySlug(rows, currentSlug)
      post == gr.post
      c1 == <<RepoCall("GetBySlug", currentSlug, 0, gr.err)>>
      titleToUse == TitleToUse(title, post)
      slugToUse == IF newSlug # Nil THEN newSlug ELSE post.slug
      newKey == ContentKey(slugToUse)
      delOk == Fault("Delete") \notin F
      delErr == IF delOk THEN OK ELSE ErrS3
      \* content != nil
      pm == ProcessMarkdownImages(slugToUse, content, blobs, nextUUID, F, s3PublicBaseURL)
      upOk == Fault("Upload") \notin F
      up1 == IF upOk THEN StorageUpload(pm.blobs, newKey, pm.out) ELSE pm.blobs
      bsC == IF SlugChanged(currentSlug, slugToUse)
             THEN BestEffortDelete(up1, ContentKey(currentSlug), F)
             ELSE up1
      cC == c1 \o pm.calls \o <<StorageCall("Upload", newKey, upOk)>> \o
            (IF SlugChanged(currentSlug, slugToUse)
             THEN <<StorageCall("Delete", ContentKey(currentSlug), delOk)>> ELSE <<>>)
      \* content == nil, slug changed
      dlErr == StorageDownloadErr(blobs, post.s3Key, Fault("Download") \in F)
      cD == c1 \o <<Call("storage", "Download", post.s3Key, "", 0, "", dlErr)>>
      data == IF StorageExists(blobs, post.s3Key) THEN blobs[post.s3Key] ELSE NoDoc
      up2 == IF upOk THEN StorageUpload(blobs, newKey, data) ELSE blobs
      bsM == BestEffortDelete(up2, post.s3Key, F)
      cM == cD \o <<StorageCall("Upload", newKey, upOk),
                    StorageCall("Delete", post.s3Key, delOk)>>
      \* the blob store, the key and the calls before s.repo.Update
      move == ~hasContent /\ SlugChanged(currentSlug, slugToUse)
      bs == IF hasContent THEN bsC ELSE IF move THEN bsM ELSE blobs
      s3Key == IF hasContent \/ move THEN newKey ELSE post.s3Key
      cs == IF hasContent THEN cC ELSE IF move THEN cM ELSE c1
      uuid == IF hasContent THEN pm.uuid ELSE nextUUID
      processed == IF hasContent THEN pm.out ELSE NoDoc
      ur == IF Fault("Update") \in F
            THEN RepoResult(ErrDB, rows, NoPost)
            ELSE RepoUpdate(rows, post.id, titleToUse, slugToUse, s3Key)
      L(err, p, proc, calls) ==
        LastOp("UpdatePost", currentSlug, title, newSlug, hasContent, content, err, p,
               NoDoc, proc, calls)
  IN IF gr.err # OK
     THEN Outcome(rows, blobs, nextId, nextUUID, L(gr.err, NoPost, NoDoc, c1))
     ELSE IF hasContent /\ UpdateUploadErr(F) # OK
     THEN Outcome(rows, pm.blobs, nextId, pm.uuid,
                  L(UpdateUploadErr(F), NoPost, pm.out,
                    c1 \o pm.calls \o <<StorageCall("Upload", newKey, FALSE)>>))
     ELSE IF move /\ MoveDownloadFatal(dlErr)
     THEN Outcome(rows, blobs, nextId, nextUUID, L(ErrDownload, NoPost, NoDoc, cD))
     ELSE IF move /\ UpdateUploadErr(F) # OK
     THEN Outcome(rows, blobs, nextId, nextUUID,
                  L(UpdateUploadErr(F), NoPost, NoDoc,
                    cD \o <<StorageCall("Upload", newKey, FALSE)>>))
     ELSE IF SlugChanged(currentSlug, slugToUse) /\ OldKeyDeleteErr(delErr) # OK
     THEN Outcome(rows, bs, nextId, uuid, L(ErrDeleteS3, NoPost, processed, cs))
     ELSE Outcome(ur.rows, bs, nextId, uuid,
                  L(ur.err, ur.post, processed,
                    cs \o <<Call("repo", "Update", s3Key, slugToUse, post.id,
                                 titleToUse, ur.err)>>))


(***************************************************************************)
(* service.go: DeletePost                                                  *)
(***************************************************************************)
DeleteFaults == {Fault("GetBySlug"), Fault("Delete"), Fault("DeletePrefix"), Fault("RepoDelete")}

\* a prefix that is not the one the pipeline uploads under
ImagesPrefixSlugWrong(post) == ""

\* the prefix whose blobs DeletePost removes: posts/{post.Slug}/images/
ImagesPrefixSlug(post) == post.slug

\* DeletePost dropping the error of the content deletion
DeleteContentErrDropped(F) == OK

\* if delErr := s.storage.Delete(ctx, post.S3Key); delErr != nil: fatal
DeleteContentErr(F) == IF Fault("Delete") \in F THEN ErrDeleteS3 ELSE OK

\* DeletePost dropping the error of the deletion of the images
DeleteImagesErrDropped(F) == OK

\* if delErr := s.storage.DeletePrefix(ctx, imagesPrefix); delErr != nil: fatal
DeleteImagesErr(F) == IF Fault("DeletePrefix") \in F THEN ErrDeleteImages ELSE OK

DeletePostRun(slug, F) ==
  LET gr == IF Fault("GetBySlug") \in F
            THEN RepoResult(ErrDB, rows, NoPost)
            ELSE RepoGetBySlug(rows, slug)
      post == gr.post
      c1 == <<RepoCall("GetBySlug", slug, 0, gr.err)>>
      hasKey == post.s3Key # EmptyKey
      bs1 == IF hasKey /\ Fault("Delete") \notin F
             THEN StorageDelete(blobs, post.s3Key) ELSE blobs
      c2 == c1 \o (IF hasKey
                   THEN <<StorageCall("Delete", post.s3Key, Fault("Delete") \notin F)>>
                   ELSE <<>>)
      bs2 == StorageDeletePrefix(bs1, ImagesPrefixSlug(post))
      c3 == c2 \o <<PrefixCall(ImagesPrefixSlug(post), Fault("DeletePrefix") \notin F,
                              IF Fault("DeletePrefix") \in F THEN 0
                              ELSE Cardinality(DOMAIN bs1) - Cardinality(DOMAIN bs2))>>
      c4 == c3 \o <<RepoCall("Delete", slug, 0,
                              IF Fault("RepoDelete") \in F THEN ErrDB ELSE OK)>>
      L(err, calls) ==
        LastOp("DeletePost", slug, Nil, Nil, FALSE, NoDoc, err, gr.post, NoDoc, NoDoc, calls)
  IN IF gr.err # OK THEN Outcome(rows, blobs, nextId, nextUUID, L(gr.err, c1))
     ELSE IF hasKey /\ DeleteContentErr(F) # OK
     THEN Outcome(rows, blobs, nextId, nextUUID, L(DeleteContentErr(F), c2))
     ELSE IF DeleteImagesErr(F) # OK
     THEN Outcome(rows, bs1, nextId, nextUUID, L(DeleteImagesErr(F), c3))
     ELSE IF Fault("RepoDelete") \in F
     THEN Outcome(rows, bs2, nextId, nextUUID, L(ErrDB, c4))
     ELSE Outcome(RepoDelete(rows, slug), bs2, nextId, nextUUID, L(OK, c4))

(***************************************************************************)
(* service.go: PublishPost                                                 *)
(***************************************************************************)
PublishFaults == {Fault("Publish"), Fault("Notify")}

\* the event built with slug and title swapped
NotifyPublishedSwapped(post, F) ==
  <<NotifyCall(post.id, post.title, post.slug, Fault("Notify") \notin F)>>

\* events.NewPostPublished(post.ID, post.Slug, post.Title), handed to the publisher
NotifyPublished(post, F) ==
  <<NotifyCall(post.id, post.slug, post.title, Fault("Notify") \notin F)>>

\* PublishPost returning the notifier's error
PublishErrPropagated(F) == IF Fault("Notify") \in F THEN ErrAMQP ELSE OK

\* the notifier's error is logged (s.logger.Warn) and PublishPost returns
\* post, nil
PublishErr(F) == OK

PublishPostRun(slug, F) ==
  LET pr == IF Fault("Publish") \in F
            THEN RepoResult(ErrDB, rows, NoPost)
            ELSE RepoPublish(rows, slug)
      c1 == <<RepoCall("Publish", slug, 0, pr.err)>>
      L(err, post, calls) ==
        LastOp("PublishPost", slug, Nil, Nil, FALSE, NoDoc, err, post, NoDoc, NoDoc, calls)
  IN IF pr.err # OK THEN Outcome(rows, blobs, nextId, nextUUID, L(pr.err, NoPost, c1))
     ELSE Outcome(pr.rows, blobs, nextId, nextUUID,
                  L(PublishErr(F), IF PublishErr(F) = OK THEN pr.post ELSE NoPost,
                    c1 \o NotifyPublished(pr.post, F)))

\* no call has been made, or the caller has taken the last call's result
NoCall == LastOp("none", Nil, Nil, Nil, FALSE, NoDoc, OK, NoPost, NoDoc, NoDoc, <<>>)

(***************************************************************************)
(* handlers: the HTTP endpoints PUT /posts/{slug} and DELETE /posts/{slug}.*)
(* A response is the call the handler made on the Service, if any, with    *)
(* the route, the status code and the error code written.                  *)
(***************************************************************************)
StatusOK == 200
StatusNoContent == 204
StatusBadRequest == 400
StatusNotFound == 404
StatusConflict == 409
StatusInternalServerError == 500

\* the decoded body of a request, and a body that is not JSON
PostRequest(title, slug, content) ==
  [json |-> TRUE, title |-> title, slug |-> slug, content |-> content]
BadJSON == [json |-> FALSE, title |-> "", slug |-> "", content |-> NoDoc]

\* slugRegex.MatchString on the slugs of the model
slugRegex(slug) == slug \in Slugs

\* the fields validatePostRequest reports
validatePostRequest(title, slug) ==
  (IF title = "" \/ Len(title) > 200 THEN {"title"} ELSE {}) \cup
  (IF slug = "" \/ Len(slug) > 100 \/ ~slugRegex(slug) THEN {"slug"} ELSE {})

\* the state a handler leaves when it answers without calling the Service
NoServiceCall == Outcome(rows, blobs, nextId, nextUUID, NoCall)

\* writeJSON / writeError / w.WriteHeader: the response of a handler
Respond(o, route, code, errCode) ==
  [o EXCEPT !.last = [route |-> route, code |-> code, errCode |-> errCode] @@ o.last]

\* PostsHandler.Update
PostsHandlerUpdate(pathSlug, req, F) ==
  LET route == "PUT /posts/{slug}"
      o == UpdatePostRun(pathSlug, req.title, req.slug, TRUE, req.content, F)
  IN IF pathSlug = ""
     THEN Respond(NoServiceCall, route, StatusBadRequest, "BAD_REQUEST")
     ELSE IF ~req.json
     THEN Respond(NoServiceCall, route, StatusBadRequest, "BAD_REQUEST")
     ELSE IF validatePostRequest(req.title, req.slug) # {}
     THEN Respond(NoServiceCall, route, StatusBadRequest, "VALIDATION_ERROR")
     ELSE IF o.last.err # OK
     THEN IF o.last.err = ErrNotFound
          THEN Respond(o, route, StatusNotFound, "NOT_FOUND")
          ELSE Respond(o, route, StatusInternalServerError, "INTERNAL_ERROR")
     ELSE Respond(o, route, StatusOK, "")

\* PostsHandler.Delete
PostsHandlerDelete(pathSlug, F) ==
  LET route == "DELETE /posts/{slug}"
      o == DeletePostRun(pathSlug, F)
  IN IF pathSlug = ""
     THEN Respond(NoServiceCall, route, StatusBadRequest, "BAD_REQUEST")
     ELSE IF o.last.err # OK
     THEN Respond(o, route, StatusInternalServerError, "INTERNAL_ERROR")
     ELSE Respond(o, route, StatusNoContent, "")

(***************************************************************************)
(* The state machine: NewService, then any sequence of calls.              *)
(***************************************************************************)

\* a caller with no call of its own under way
Idle ==
  [pc |-> "idle", title |-> Nil, slug |-> Nil, content |-> NoDoc, F |-> {},
   id |-> 0, err |-> OK, overlapped |-> FALSE, free |-> FALSE]

\* NewRabbitMQPublisher: the connection dialled and the channel opened; mu
\* is the holder of the mutex, once the state of the sync.Once of Close.
\* channelCloses and connCloses count the calls of channel.Close and
\* conn.Close, closeReturned tells that a call of Close has returned.
NewRabbitMQPublisher ==
  [conn |-> "open", channel |-> "open", mu |-> Nil, once |-> "new",
   channelCloses |-> 0, connCloses |-> 0, closeReturned |-> FALSE]

Init ==
  /\ pending = [c \in Callers |-> Idle]
  /\ publisher = NewRabbitMQPublisher
  /\ rows = {}
  /\ blobs = [k \in {} |-> NoDoc]
  /\ nextId = 1
  /\ nextUUID = 1
  /\ last = NoCall

Apply(o) ==
  /\ rows' = o.rows
  /\ blobs' = o.blobs
  /\ nextId' = o.nextId
  /\ nextUUID' = o.nextUUID
  /\ last' = o.last
  /\ UNCHANGED <<pending, publisher>>

\* the caller takes the result of the call that has returned; the writing
\* methods are called from here, the reading ones at any time
Return ==
  /\ last # NoCall
  /\ last' = NoCall
  /\ UNCHANGED <<rows, blobs, nextId, nextUUID, pending, publisher>>

\* a call of CreatePost; the metadata store inserts at most MaxPostId rows
CreatePost ==
  \E title \in CreateTitles, slug \in Slugs, content \in Docs :
   \E F \in FaultSets(CreateFaults, content) :
    /\ last = NoCall
    /\ RowsWithSlug(rows, slug) # {} \/ Fault("Create") \in F \/ nextId <= MaxPostId
    /\ nextUUID + Matches(content) <= MaxUUID + 1
    /\ Apply(CreatePostRun(title, slug, content, F))

\* the page numbers and page sizes ListPosts is called with: the values
\* about its limits, and pages whose offset does not fit 32 bits
Pages == {-1, 0, 1, 2, 107374183, 107374184, 214748366, 2147483647}
PerPages == {-1, 0, 1, 2, 20, 100, 101}

ListPosts ==
  \E page \in Pages, perPage \in PerPages, status \in {Nil, Draft, Published},
     F \in FaultSets(ListFaults, NoDoc) :
    /\ last = NoCall
    /\ Apply(ListPostsRun(page, perPage, status, F))

GetPostContent ==
  \E slug \in Slugs, F \in SUBSET GetContentFaults :
    Apply(GetPostContentRun(slug, F))

\* a call of UpdatePost with its title drawn from titles and its failing
\* calls from sites
UpdatePostWith(titles, sites) ==
  \E currentSlug \in Slugs, title \in titles, newSlug \in Slugs \cup {Nil},
     hasContent \in BOOLEAN :
    \E content \in IF hasContent THEN Docs ELSE {NoDoc} :
     \E F \in FaultSets(sites, content) :
      /\ last = NoCall
      /\ nextUUID + Matches(content) <= MaxUUID + 1
      /\ Apply(UpdatePostRun(currentSlug, title, newSlug, hasContent, content, F))

UpdatePost == UpdatePostWith(UpdateTitles \cup {Nil}, UpdateFaults)

\* UpdatePost called with a nil title
UpdatePostKeepTitle == UpdatePostWith({Nil}, UpdateFaults)

\* UpdatePost called with a title only
UpdatePostTitle ==
  \E currentSlug \in Slugs, title \in UpdateTitles, F \in FaultSets(UpdateFaults, NoDoc) :
    /\ last = NoCall
    /\ Apply(UpdatePostRun(currentSlug, title, Nil, FALSE, NoDoc, F))

DeletePost ==
  \E slug \in Slugs, F \in FaultSets(DeleteFaults, NoDoc) :
    /\ last = NoCall
    /\ Apply(DeletePostRun(slug, F))

PublishPost ==
  \E slug \in Slugs, F \in FaultSets(PublishFaults, NoDoc) :
    /\ last = NoCall
    /\ Apply(PublishPostRun(slug, F))

Next ==
  \/ Return
  \/ CreatePost
  \/ GetPostContent
  \/ UpdatePost
  \/ DeletePost
  \/ PublishPost
  \/ ListPosts

Spec == Init /\ [][Next]_vars

\* CreatePost and GetPostContent alone
NextCreate ==
  \/ Return
  \/ CreatePost
  \/ GetPostContent

SpecCreate == Init /\ [][NextCreate]_vars

\* the calls that write both stores, titles left alone
NextStores ==
  \/ Return
  \/ CreatePost
  \/ UpdatePostKeepTitle
  \/ DeletePost
  \/ PublishPost

SpecStores == Init /\ [][NextStores]_vars

\* the calls that decide a post's status and what the notifier is told
NextPublish ==
  \/ Return
  \/ CreatePost
  \/ UpdatePostTitle
  \/ PublishPost

SpecPublish == Init /\ [][NextPublish]_vars

\* the writing calls when no store call ever fails
CreatePostReliable ==
  \E title \in CreateTitles, slug \in Slugs, content \in Docs :
    /\ last = NoCall
    /\ RowsWithSlug(rows, slug) # {} \/ nextId <= MaxPostId
    /\ nextUUID + Matches(content) <= MaxUUID + 1
    /\ Apply(CreatePostRun(title, slug, content, {}))

UpdatePostReliable ==
  \E currentSlug \in Slugs, newSlug \in Slugs \cup {Nil}, hasContent \in BOOLEAN :
    \E content \in IF hasContent THEN Docs ELSE {NoDoc} :
      /\ last = NoCall
      /\ nextUUID + Matches(content) <= MaxUUID + 1
      /\ Apply(UpdatePostRun(currentSlug, Nil, newSlug, hasContent, content, {}))

DeletePostReliable ==
  \E slug \in Slugs :
    /\ last = NoCall
    /\ Apply(DeletePostRun(slug, {}))

NextReliable ==
  \/ Return
  \/ CreatePostReliable
  \/ UpdatePostReliable
  \/ DeletePostReliable

SpecReliable == Init /\ [][NextReliable]_vars

\* CreatePost and UpdatePost given documents with embedded images of every
\* kind; only the uploads of the images fail
CreatePostImages ==
  \E title \in CreateTitles, slug \in Slugs, content \in ImageDocs :
   \E F \in FaultSets({}, content) :
    /\ last = NoCall
    /\ RowsWithSlug(rows, slug) # {} \/ nextId <= MaxPostId
    /\ nextUUID + Matches(content) <= MaxUUID + 1
    /\ Apply(CreatePostRun(title, slug, content, F))

UpdatePostImages ==
  \E currentSlug \in Slugs, newSlug \in Slugs \cup {Nil}, content \in ImageDocs :
   \E F \in FaultSets({}, content) :
    /\ last = NoCall
    /\ nextUUID + Matches(content) <= MaxUUID + 1
    /\ Apply(UpdatePostRun(currentSlug, Nil, newSlug, TRUE, content, F))

NextImages ==
  \/ Return
  \/ CreatePostImages
  \/ UpdatePostImages

SpecImages == Init /\ [][NextImages]_vars

\* CreatePost and UpdatePost given documents with several embedded images;
\* only the uploads of the images fail
CreatePostSiblings ==
  \E title \in CreateTitles, slug \in Slugs, content \in SiblingDocs :
   \E F \in FaultSets({}, content) :
    /\ last = NoCall
    /\ RowsWithSlug(rows, slug) # {} \/ nextId <= MaxPostId
    /\ nextUUID + Matches(content) <= MaxImages + 2
    /\ Apply(CreatePostRun(title, slug, content, F))

UpdatePostSiblings ==
  \E currentSlug \in Slugs, content \in SiblingDocs :
   \E F \in FaultSets({}, content) :
    /\ last = NoCall
    /\ nextUUID + Matches(content) <= MaxImages + 2
    /\ Apply(UpdatePostRun(currentSlug, Nil, Nil, TRUE, content, F))

NextSiblings ==
  \/ Return
  \/ CreatePostSiblings
  \/ UpdatePostSiblings

SpecSiblings == Init /\ [][NextSiblings]_vars

\* the requests of the model: bodies that are not JSON, that fail the
\* validation, and valid ones
Requests ==
  {BadJSON} \cup
  {PostRequest(title, slug, content) :
     title \in UpdateTitles \cup {""}, slug \in Slugs \cup {"", "Not A Slug"},
     content \in Docs}

\* a request PUT /posts/{slug}
PutPost ==
  \E pathSlug \in Slugs, req \in Requests :
   \E F \in FaultSets(UpdateFaults, req.content) :
    /\ last = NoCall
    /\ nextUUID + Matches(req.content) <= MaxUUID + 1
    /\ Apply(PostsHandlerUpdate(pathSlug, req, F))

\* a request DELETE /posts/{slug}
DeletePostRequest ==
  \E pathSlug \in Slugs, F \in FaultSets(DeleteFaults, NoDoc) :
    /\ last = NoCall
    /\ Apply(PostsHandlerDelete(pathSlug, F))

NextHTTP ==
  \/ Return
  \/ CreatePostReliable
  \/ PutPost
  \/ DeletePostRequest

SpecHTTP == Init /\ [][NextHTTP]_vars

\* ListPosts over the posts that CreatePost and PublishPost leave
NextList ==
  \/ Return
  \/ CreatePostReliable
  \/ PublishPost
  \/ ListPosts

SpecList == Init /\ [][NextList]_vars

\* UpdatePost, with any of its store calls failing, on the posts that
\* CreatePost leaves
NextUpdate ==
  \/ Return
  \/ CreatePostReliable
  \/ UpdatePost

SpecUpdate == Init /\ [][NextUpdate]_vars

(***************************************************************************)
(* CreatePost called by several callers at once: the Service holds no      *)
(* per-call state and no lock, so the store calls of the calls under way   *)
(* interleave.  pending[c] is the call of caller c: its arguments, the     *)
(* store call it makes next (pc) and, once it has returned, its error.     *)
(***************************************************************************)
InFlight(c) == pending[c].pc \in {"Create", "Upload", "Compensate"}

\* the identifiers the call of c may still draw from uuid.New()
PendingMatches(c) ==
  IF pending[c].pc \in {"Create", "Upload"} THEN Matches(pending[c].content) ELSE 0

\* the rows inserted by calls that are still under way
RowsOfPending == {r \in rows : \E c \in Callers : InFlight(c) /\ pending[c].id = r.id}

\* caller c calls CreatePost(title, slug, content) while the calls of the
\* other callers may be under way (the image uploads of these calls succeed)
CreatePostCall(c) ==
  \E title \in CreateTitles, slug \in Slugs, content \in Docs :
   \E F \in FaultSets(CreateFaults, NoDoc) :
    /\ last = NoCall
    /\ pending[c].pc = "idle"
    \* (of two callers, at most one other has a call under way)
    /\ LET others == {d \in Callers \ {c} : InFlight(d)}
           creating == {d \in others : pending[d].pc = "Create"}
           reserved == IF others = {} THEN 0
                       ELSE PendingMatches(CHOOSE d \in others : TRUE)
       IN /\ nextId + Cardinality(creating) <= MaxPostId
         /\ nextUUID + Matches(content) + reserved <= MaxUUID + 1
         /\ pending' =
               [d \in Callers |->
                  IF d = c
                  THEN [pc |-> "Create", title |-> title, slug |-> slug,
                        content |-> content, F |-> F, id |-> 0, err |-> OK,
                        overlapped |-> others # {},
                        free |-> RowsWithSlug(rows, slug) \subseteq RowsOfPending]
                  ELSE IF d \in others
                  THEN [pending[d] EXCEPT !.overlapped = TRUE]
                  ELSE pending[d]]
    /\ UNCHANGED <<rows, blobs, nextId, nextUUID, last, publisher>>

\* post, err := s.repo.Create(ctx, title, slug, s3Key)
CreatePostInsert(c) ==
  /\ pending[c].pc = "Create"
  /\ LET p == pending[c]
         cr == IF Fault("Create") \in p.F
               THEN RepoResult(ErrDB, rows, NoPost)
               ELSE RepoCreate(rows, nextId, p.title, p.slug, ContentKey(p.slug))
     IN /\ rows' = cr.rows
        /\ nextId' = IF cr.err = OK THEN nextId + 1 ELSE nextId
        /\ pending' = [pending EXCEPT ![c].pc = IF cr.err = OK THEN "Upload" ELSE "done",
                                      ![c].id = cr.post.id,
                                      ![c].err = cr.err]
  /\ UNCHANGED <<blobs, nextUUID, last, publisher>>

\* the image pipeline, then s.storage.Upload(ctx, s3Key, content)
CreatePostUpload(c) ==
  /\ pending[c].pc = "Upload"
  /\ LET p == pending[c]
         pm == ProcessMarkdownImages(p.slug, p.content, blobs, nextUUID, p.F, s3PublicBaseURL)
     IN /\ nextUUID' = pm.uuid
        /\ IF Fault("Upload") \in p.F
           THEN /\ blobs' = pm.blobs
                /\ pending' = [pending EXCEPT ![c].pc = "Compensate"]
           ELSE /\ blobs' = StorageUpload(pm.blobs, ContentKey(p.slug),
                                          CreateUploadBody(p.content, pm.out))
                /\ pending' = [pending EXCEPT ![c].pc = "done", ![c].err = OK]
  /\ UNCHANGED <<rows, nextId, last, publisher>>

\* _ = s.repo.Delete(ctx, slug); return nil, fmt.Errorf("upload to s3: %w", err)
CreatePostCompensate(c) ==
  /\ pending[c].pc = "Compensate"
  /\ rows' = CompensateCreate(rows, pending[c].slug, pending[c].F)
  /\ pending' = [pending EXCEPT ![c].pc = "done", ![c].err = ErrUpload]
  /\ UNCHANGED <<blobs, nextId, nextUUID, last, publisher>>

\* the caller takes the result of its call
CreatePostReturn(c) ==
  /\ pending[c].pc = "done"
  /\ pending' = [pending EXCEPT ![c] = Idle]
  /\ UNCHANGED <<rows, blobs, nextId, nextUUID, last, publisher>>

NextRace ==
  \E c \in Callers :
    \/ CreatePostCall(c)
    \/ CreatePostInsert(c)
    \/ CreatePostUpload(c)
    \/ CreatePostCompensate(c)
    \/ CreatePostReturn(c)

SpecRace == Init /\ [][NextRace]_vars

\* documents without embedded images
PlainDocs == {d \in Docs : Matches(d) = 0}

\* UpdatePost renaming a post, with or without content and with no store
\* call failing, between the steps of the CreatePost calls under way
UpdatePostRename ==
  \E currentSlug \in Slugs, newSlug \in Slugs, hasContent \in BOOLEAN :
   \E content \in IF hasContent THEN PlainDocs ELSE {NoDoc} :
    /\ last = NoCall
    /\ currentSlug # newSlug
    /\ Apply(UpdatePostRun(currentSlug, Nil, newSlug, hasContent, content, {}))

NextRaceRename ==
  \/ Return
  \/ UpdatePostRename
  \/ \E c \in Callers :
       \/ CreatePostCall(c)
       \/ CreatePostInsert(c)
       \/ CreatePostUpload(c)
       \/ CreatePostCompensate(c)
       \/ CreatePostReturn(c)

SpecRaceRename == Init /\ [][NextRaceRename]_vars

(***************************************************************************)
(* PublishPost called by two callers at once.  A caller keeps the result   *)
(* of its call (pc "done") until it takes it; a call overlaps at most one  *)
(* other call.                                                             *)
(***************************************************************************)
Busy(c) == pending[c].pc \notin {"idle", "done"}
OthersBusy(c) == {d \in Callers \ {c} : Busy(d)}

\* c may start a call: it has none under way, and a call under way has not
\* overlapped another call yet
MayCall(c) ==
  /\ last = NoCall
  /\ pending[c].pc = "idle"
  /\ \A d \in OthersBusy(c) : ~pending[d].overlapped

\* pending once c has started the call described by rec
Started(c, rec) ==
  [d \in Callers |->
     IF d = c THEN rec
     ELSE IF d \in OthersBusy(c) THEN [pending[d] EXCEPT !.overlapped = TRUE]
     ELSE pending[d]]

\* CreatePost while no call is under way, no store call failing
CreatePostAlone ==
  /\ \A c \in Callers : pending[c].pc = "idle"
  /\ CreatePostReliable

\* caller c calls PublishPost(slug); first: no other call is under way,
\* draft: the post is a draft at this moment
PublishPostCall(c) ==
  \E slug \in Slugs, F \in FaultSets(PublishFaults, NoDoc) :
    /\ MayCall(c)
    /\ pending' = Started(c, [pc |-> "Publish", op |-> "PublishPost", slug |-> slug,
                              F |-> F, post |-> NoPost, err |-> OK, calls |-> <<>>,
                              overlapped |-> OthersBusy(c) # {},
                              first |-> OthersBusy(c) = {},
                              draft |-> \E r \in RowsWithSlug(rows, slug) : r.status = Draft])
    /\ UNCHANGED <<rows, blobs, nextId, nextUUID, last, publisher>>

\* post, err := s.repo.Publish(ctx, slug); if err != nil { return nil, err }
PublishPostStore(c) ==
  /\ pending[c].pc = "Publish"
  /\ LET p == pending[c]
         pr == IF Fault("Publish") \in p.F
               THEN RepoResult(ErrDB, rows, NoPost)
               ELSE RepoPublish(rows, p.slug)
     IN /\ rows' = pr.rows
        /\ pending' = [pending EXCEPT ![c].pc = IF pr.err = OK THEN "Notify" ELSE "done",
                                      ![c].post = pr.post,
                                      ![c].err = pr.err]
  /\ UNCHANGED <<blobs, nextId, nextUUID, last, publisher>>

\* s.publisher.PublishPostPublished(ctx, event); return post, nil
PublishPostNotify(c) ==
  /\ pending[c].pc = "Notify"
  /\ LET p == pending[c]
     IN pending' = [pending EXCEPT ![c].pc = "done",
                                   ![c].calls = NotifyPublished(p.post, p.F),
                                   ![c].err = PublishErr(p.F),
                                   ![c].post = IF PublishErr(p.F) = OK THEN p.post ELSE NoPost]
  /\ UNCHANGED <<rows, blobs, nextId, nextUUID, last, publisher>>

\* the caller takes the result of its call
TakeResult(c) ==
  /\ pending[c].pc = "done"
  /\ pending' = [pending EXCEPT ![c] = Idle]
  /\ UNCHANGED <<rows, blobs, nextId, nextUUID, last, publisher>>

NextRacePublish ==
  \/ Return
  \/ CreatePostAlone
  \/ \E c \in Callers :
       \/ PublishPostCall(c)
       \/ PublishPostStore(c)
       \/ PublishPostNotify(c)
       \/ TakeResult(c)

SpecRacePublish == Init /\ [][NextRacePublish]_vars

(***************************************************************************)
(* UpdatePost and DeletePost called by two callers at once, no store call  *)
(* failing: each store call of a method is a step of its own.              *)
(***************************************************************************)
\* between calls every row's content blob exists and every content blob
\* is the blob of a row
Consistent(rs, bs) ==
  /\ \A r \in rs : r.s3Key \in DOMAIN bs
  /\ \A k \in DOMAIN bs : k.kind = "md" => \E r \in rs : r.s3Key = k

\* caller c calls UpdatePost, with a nil title; first: no other call is
\* under way, clean: the stores are consistent and the post exists at this
\* moment
UpdatePostCall(c) ==
  \E currentSlug \in Slugs, title \in {Nil},
     newSlug \in Slugs \cup {Nil}, hasContent \in BOOLEAN :
   \E content \in IF hasContent THEN PlainDocs ELSE {NoDoc} :
    /\ MayCall(c)
    /\ pending' = Started(c, [pc |-> "GetBySlug", op |-> "UpdatePost",
                              slug |-> currentSlug, title |-> title, newSlug |-> newSlug,
                              hasContent |-> hasContent, content |-> content,
                              post |-> NoPost, data |-> NoDoc, err |-> OK,
                              overlapped |-> OthersBusy(c) # {},
                              first |-> OthersBusy(c) = {},
                              clean |-> /\ Consistent(rows, blobs)
                                        /\ RowsWithSlug(rows, currentSlug) # {}])
    /\ UNCHANGED <<rows, blobs, nextId, nextUUID, last, publisher>>

\* slugToUse := post.Slug; if newSlug != nil { slugToUse = *newSlug }
SlugToUse(p) == IF p.newSlug # Nil THEN p.newSlug ELSE p.post.slug

\* post, err := s.repo.GetBySlug(ctx, currentSlug)
UpdateGetBySlug(c) ==
  /\ pending[c].pc = "GetBySlug" /\ pending[c].op = "UpdatePost"
  /\ LET p == pending[c]
         gr == RepoGetBySlug(rows, p.slug)
         q == [p EXCEPT !.post = gr.post]
     IN pending' = [pending EXCEPT ![c].post = gr.post,
                                   ![c].err = gr.err,
                                   ![c].pc = IF gr.err # OK THEN "done"
                                             ELSE IF p.hasContent THEN "Upload"
                                             ELSE IF SlugChanged(p.slug, SlugToUse(q))
                                             THEN "Download"
                                             ELSE "Update"]
  /\ UNCHANGED <<rows, blobs, nextId, nextUUID, last, publisher>>

\* content != nil: the image pipeline, then the upload at posts/{slugToUse}.md
UpdateUpload(c) ==
  /\ pending[c].pc = "Upload"
  /\ LET p == pending[c]
         pm == ProcessMarkdownImages(SlugToUse(p), p.content, blobs, nextUUID, {},
                                     s3PublicBaseURL)
     IN /\ blobs' = StorageUpload(pm.blobs, ContentKey(SlugToUse(p)), pm.out)
        /\ nextUUID' = pm.uuid
        /\ pending' = [pending EXCEPT ![c].pc = IF SlugChanged(p.slug, SlugToUse(p))
                                                THEN "DeleteOld" ELSE "Update"]
  /\ UNCHANGED <<rows, nextId, last, publisher>>

\* content == nil, slug changed: body, err := s.storage.Download(ctx, post.S3Key)
UpdateDownload(c) ==
  /\ pending[c].pc = "Download"
  /\ LET p == pending[c]
         dlErr == StorageDownloadErr(blobs, p.post.s3Key, FALSE)
     IN pending' = IF MoveDownloadFatal(dlErr)
                   THEN [pending EXCEPT ![c].pc = "done", ![c].err = ErrDownload,
                                        ![c].post = NoPost]
                   ELSE [pending EXCEPT ![c].pc = "MoveUpload",
                                        ![c].data = blobs[p.post.s3Key]]
  /\ UNCHANGED <<rows, blobs, nextId, nextUUID, last, publisher>>

\* s.storage.Upload(ctx, newKey, bytes.NewReader(data), "text/markdown")
UpdateMoveUpload(c) ==
  /\ pending[c].pc = "MoveUpload"
  /\ blobs' = StorageUpload(blobs, ContentKey(SlugToUse(pending[c])), pending[c].data)
  /\ pending' = [pending EXCEPT ![c].pc = "DeleteOld"]
  /\ UNCHANGED <<rows, nextId, nextUUID, last, publisher>>

\* _ = s.storage.Delete(ctx, oldKey) / _ = s.storage.Delete(ctx, post.S3Key)
UpdateDeleteOld(c) ==
  /\ pending[c].pc = "DeleteOld"
  /\ LET p == pending[c]
         oldKey == IF p.hasContent THEN ContentKey(p.slug) ELSE p.post.s3Key
     IN blobs' = BestEffortDelete(blobs, oldKey, {})
  /\ pending' = [pending EXCEPT ![c].pc = "Update"]
  /\ UNCHANGED <<rows, nextId, nextUUID, last, publisher>>

\* return s.repo.Update(ctx, post.ID, titleToUse, slugToUse, s3Key)
UpdateRepoUpdate(c) ==
  /\ pending[c].pc = "Update"
  /\ LET p == pending[c]
         s3Key == IF p.hasContent \/ SlugChanged(p.slug, SlugToUse(p))
                  THEN ContentKey(SlugToUse(p)) ELSE p.post.s3Key
         ur == RepoUpdate(rows, p.post.id, TitleToUse(p.title, p.post), SlugToUse(p), s3Key)
     IN /\ rows' = ur.rows
        /\ pending' = [pending EXCEPT ![c].pc = "done", ![c].err = ur.err,
                                      ![c].post = ur.post]
  /\ UNCHANGED <<blobs, nextId, nextUUID, last, publisher>>

\* caller c calls DeletePost(slug)
DeletePostCall(c) ==
  \E slug \in Slugs :
    /\ MayCall(c)
    /\ pending' = Started(c, [pc |-> "GetBySlug", op |-> "DeletePost", slug |-> slug,
                              post |-> NoPost, err |-> OK,
                              overlapped |-> OthersBusy(c) # {},
                              first |-> OthersBusy(c) = {},
                              clean |-> /\ Consistent(rows, blobs)
                                        /\ RowsWithSlug(rows, slug) # {}])
    /\ UNCHANGED <<rows, blobs, nextId, nextUUID, last, publisher>>

\* post, err := s.repo.GetBySlug(ctx, slug)
DeleteGetBySlug(c) ==
  /\ pending[c].pc = "GetBySlug" /\ pending[c].op = "DeletePost"
  /\ LET gr == RepoGetBySlug(rows, pending[c].slug)
     IN pending' = [pending EXCEPT ![c].post = gr.post,
                                   ![c].err = gr.err,
                                   ![c].pc = IF gr.err # OK THEN "done"
                                             ELSE IF gr.post.s3Key # EmptyKey
                                             THEN "DeleteContent"
                                             ELSE "DeleteImages"]
  /\ UNCHANGED <<rows, blobs, nextId, nextUUID, last, publisher>>

\* s.storage.Delete(ctx, post.S3Key)
DeleteContent(c) ==
  /\ pending[c].pc = "DeleteContent"
  /\ blobs' = StorageDelete(blobs, pending[c].post.s3Key)
  /\ pending' = [pending EXCEPT ![c].pc = "DeleteImages"]
  /\ UNCHANGED <<rows, nextId, nextUUID, last, publisher>>

\* s.storage.DeletePrefix(ctx, imagesPrefix)
DeleteImages(c) ==
  /\ pending[c].pc = "DeleteImages"
  /\ blobs' = StorageDeletePrefix(blobs, ImagesPrefixSlug(pending[c].post))
  /\ pending' = [pending EXCEPT ![c].pc = "DeleteRow"]
  /\ UNCHANGED <<rows, nextId, nextUUID, last, publisher>>

\* return s.repo.Delete(ctx, slug)
DeleteRow(c) ==
  /\ pending[c].pc = "DeleteRow"
  /\ rows' = RepoDelete(rows, pending[c].slug)
  /\ pending' = [pending EXCEPT ![c].pc = "done", ![c].err = OK]
  /\ UNCHANGED <<blobs, nextId, nextUUID, last, publisher>>

NextRaceWrites ==
  \/ Return
  \/ CreatePostAlone
  \/ \E c \in Callers :
       \/ UpdatePostCall(c)
       \/ UpdateGetBySlug(c)
       \/ UpdateUpload(c)
       \/ UpdateDownload(c)
       \/ UpdateMoveUpload(c)
       \/ UpdateDeleteOld(c)
       \/ UpdateRepoUpdate(c)
       \/ DeletePostCall(c)
       \/ DeleteGetBySlug(c)
       \/ DeleteContent(c)
       \/ DeleteImages(c)
       \/ DeleteRow(c)
       \/ TakeResult(c)

SpecRaceWrites == Init /\ [][NextRaceWrites]_vars


(***************************************************************************)
(* Properties.                                                             *)
(***************************************************************************)
\* a store call that failed as a call (not a typed answer of the store)
StoreFailed(c) == c.err \in {ErrDB, ErrS3, ErrAMQP}
NoStoreFailure(calls) == \A i \in DOMAIN calls : ~StoreFailed(calls[i])
\* the calls of svc.op among calls that returned an error
FailedCalls(calls, svc, op) == {i \in CallsOf(calls, svc, op) : calls[i].err # OK}
\* out is content with some of its embedded images replaced by references
\* of the same alt text, and nothing else changed
ImagesReplaced(content, out) ==
  /\ Len(out) = Len(content)
  /\ \A i \in DOMAIN content :
       \/ out[i] = content[i]
       \/ content[i].t = "img" /\ out[i].t = "ref" /\ out[i].alt = content[i].alt

\* C1: a successful CreatePost(title, slug, content) followed by a
\* GetPostContent(slug) in which no store call fails returns exactly the
\* text the image pipeline produced for content: content with accepted
\* images replaced by references and every other part untouched.
C1_CreateThenGetContent ==
  [][ ( /\ last.op = "CreatePost" /\ last.err = OK
        /\ last'.op = "GetPostContent" /\ last'.slug = last.slug
        /\ NoStoreFailure(last'.calls) )
      => ( /\ last'.err = OK
           /\ last'.body = last.processed
           /\ ImagesReplaced(last.content, last.processed) ) ]_vars

\* GetPostContent returned a document in which an image was replaced
C1_Witness ==
  /\ last.op = "GetPostContent" /\ last.err = OK
  /\ \E i \in DOMAIN last.body : last.body[i].t = "ref"

\* C2: a CreatePost whose slug already has a row makes no blob store call
\* and leaves the rows and the blobs as they were; it returns the slug
\* conflict (unless the insert itself fails as a call).
C2_ConflictNoUpload ==
  [][ ( /\ last = NoCall /\ last'.op = "CreatePost"
        /\ RowsWithSlug(rows, last'.slug) # {} )
      => ( /\ last'.err # OK
           /\ NoStoreFailure(last'.calls) => last'.err = ErrSlugExists
           /\ CallsTo(last'.calls, "storage") = {}
           /\ rows' = rows /\ blobs' = blobs ) ]_vars

\* CreatePost returned the slug conflict
C2_Witness ==
  /\ last.op = "CreatePost" /\ last.err = ErrSlugExists
  /\ RowsWithSlug(rows, last.slug) # {}

\* the content upload of the CreatePost in last failed
CreateUploadFailed ==
  /\ last.op = "CreatePost"
  /\ FailedCalls(last.calls, "storage", "Upload") # {}
  /\ \E i \in FailedCalls(last.calls, "storage", "Upload") :
       last.calls[i].key = ContentKey(last.slug)

\* C3 as stated: when the content upload of CreatePost fails, CreatePost
\* fails with the upload failure and the row it inserted is gone.
C3_Original ==
  CreateUploadFailed =>
    last.err = ErrUpload /\ RowsWithSlug(rows, last.slug) = {}

\* C3 amended: when the content upload of CreatePost fails, CreatePost fails
\* with the upload failure after attempting the compensating delete of the
\* row, and the row is gone unless that delete itself failed.
C3_CompensationRan ==
  CreateUploadFailed =>
    /\ last.err = ErrUpload
    /\ last.calls[Len(last.calls)].svc = "repo"
    /\ last.calls[Len(last.calls)].op = "Delete"
    /\ last.calls[Len(last.calls)].slug = last.slug
    /\ last.calls[Len(last.calls)].err = OK => RowsWithSlug(rows, last.slug) = {}

\* the upload failed and the compensating delete removed the row
C3_Witness ==
  /\ CreateUploadFailed
  /\ last.calls[Len(last.calls)].err = OK
  /\ RowsWithSlug(rows, last.slug) = {}


\* the posts whose row names a content key that is not in the blob store
Dangling(rs, bs) == {r.id : r \in {x \in rs : x.s3Key \notin DOMAIN bs}}

\* C4 as stated: between calls, every row's content key is in the blob
\* store, whatever store calls failed in the calls made so far.
C4_Original == Dangling(rows, blobs) = {}

\* C4 amended: a row comes to name a missing content blob only in a call
\* that returns an error to its caller; a call that returns without error
\* (best-effort failures it swallowed included) leaves no row newly without
\* its blob, so every row has its blob as long as every call so far
\* succeeded.
C4_NoSilentDangling ==
  [][ \/ Dangling(rows', blobs') \subseteq Dangling(rows, blobs)
      \/ last'.err # OK ]_vars

\* UpdatePost succeeded although its best-effort delete failed, and every
\* row has its blob
C4_Witness ==
  /\ last.op = "UpdatePost" /\ last.err = OK
  /\ FailedCalls(last.calls, "storage", "Delete") # {}
  /\ rows # {}
  /\ Dangling(rows, blobs) = {}


\* the step is a successful UpdatePost that changes the slug and supplies no
\* content
SlugOnlyUpdate ==
  /\ last = NoCall
  /\ last'.op = "UpdatePost" /\ last'.err = OK
  /\ ~last'.hasContent
  /\ last'.newSlug # Nil /\ last'.newSlug # last'.slug

\* the content key of the row of slug
KeyOfSlug(rs, slug) == (CHOOSE r \in rs : r.slug = slug).s3Key

\* C5 as stated: after a successful slug-only UpdatePost the blob at
\* posts/{newSlug}.md is the blob that was at the old content key, the old
\* key is gone, and the row's content key is posts/{newSlug}.md.
C5_Original ==
  [][ SlugOnlyUpdate =>
        LET oldKey == KeyOfSlug(rows, last'.slug)
            newKey == ContentKey(last'.newSlug)
        IN /\ newKey \in DOMAIN blobs'
           /\ blobs'[newKey] = blobs[oldKey]
           /\ oldKey \notin DOMAIN blobs'
           /\ last'.post \in rows'
           /\ last'.post.s3Key = newKey ]_vars

\* C5 amended: after a successful slug-only UpdatePost the blob at
\* posts/{newSlug}.md is the blob that was at the old content key and the
\* row's content key is posts/{newSlug}.md; the old key is gone unless its
\* best-effort deletion failed, which UpdatePost does not report.
C5_MigratesContent ==
  [][ SlugOnlyUpdate =>
        LET oldKey == KeyOfSlug(rows, last'.slug)
            newKey == ContentKey(last'.newSlug)
        IN /\ newKey \in DOMAIN blobs'
           /\ blobs'[newKey] = blobs[oldKey]
           /\ FailedCalls(last'.calls, "storage", "Delete") = {}
                => oldKey \notin DOMAIN blobs'
           /\ last'.post \in rows'
           /\ last'.post.slug = last'.newSlug
           /\ last'.post.s3Key = newKey ]_vars

\* a slug-only UpdatePost succeeded, its old-key deletion included
C5_Witness ==
  /\ last.op = "UpdatePost" /\ last.err = OK
  /\ ~last.hasContent
  /\ last.newSlug # Nil /\ last.newSlug # last.slug
  /\ FailedCalls(last.calls, "storage", "Delete") = {}
  /\ ContentKey(last.newSlug) \in DOMAIN blobs
  /\ ContentKey(last.slug) \notin DOMAIN blobs

\* C6: after a successful DeletePost(slug) the row is gone, the blob at its
\* content key is gone, and no blob is left under posts/{slug}/images/.
C6_DeleteRemovesAll ==
  (last.op = "DeletePost" /\ last.err = OK) =>
    /\ RowsWithSlug(rows, last.slug) = {}
    /\ last.post \notin rows
    /\ last.post.s3Key \notin DOMAIN blobs
    /\ \A k \in DOMAIN blobs : ~UnderImagesPrefix(k, last.slug)

\* DeletePost succeeded and its DeletePrefix removed an image
C6_Witness ==
  /\ last.op = "DeletePost" /\ last.err = OK
  /\ \E i \in CallsOf(last.calls, "storage", "DeletePrefix") : last.calls[i].id > 0

\* C7: when the deletion of the content blob fails, DeletePost returns that
\* error, the row is still there, and neither DeletePrefix nor the deletion
\* of the row is attempted.
C7_ContentDeleteFatal ==
  (last.op = "DeletePost" /\ FailedCalls(last.calls, "storage", "Delete") # {}) =>
    /\ last.err = ErrDeleteS3
    /\ last.post \in rows
    /\ RowsWithSlug(rows, last.slug) = {last.post}
    /\ CallsOf(last.calls, "storage", "DeletePrefix") = {}
    /\ CallsOf(last.calls, "repo", "Delete") = {}

\* DeletePost failed on the deletion of the content blob
C7_Witness ==
  /\ last.op = "DeletePost" /\ last.err = ErrDeleteS3
  /\ last.post.s3Key \in DOMAIN blobs

\* C8 as stated, for the histories in which no store call fails and the
\* deleted post is the only row ever inserted (every blob was then written
\* on its behalf): after a successful DeletePost no blob remains, whatever
\* the post's earlier content updates and renames.
C8_NoBlobLeft ==
  (last.op = "DeletePost" /\ last.err = OK /\ nextId = 2) => DOMAIN blobs = {}

\* the step is a PublishPost call that the metadata store answers
PublishAnswered ==
  /\ last = NoCall
  /\ last'.op = "PublishPost"
  /\ NoStoreFailure(SubSeq(last'.calls, 1, 1))

DraftRows(rs, slug) == {r \in rs : r.slug = slug /\ r.status = Draft}

\* C9: PublishPost on a Draft post returns that post with status Published,
\* leaves its row Published, and calls the notifier exactly once, with the
\* post's id, slug and title.
C9_PublishDraft ==
  [][ (PublishAnswered /\ DraftRows(rows, last'.slug) # {}) =>
        LET r == CHOOSE x \in DraftRows(rows, last'.slug) : TRUE
            p == [r EXCEPT !.status = Published]
            n == CallsTo(last'.calls, "publisher")
        IN /\ last'.err = OK
           /\ last'.post = p
           /\ rows' = (rows \ {r}) \cup {p}
           /\ Cardinality(n) = 1
           /\ \A i \in n : /\ last'.calls[i].op = "PublishPostPublished"
                           /\ last'.calls[i].id = r.id
                           /\ last'.calls[i].slug = r.slug
                           /\ last'.calls[i].title = r.title ]_vars

\* PublishPost published a post whose title had been changed
C9_Witness ==
  /\ last.op = "PublishPost" /\ last.err = OK
  /\ last.post.status = Published /\ last.post.title \in UpdateTitles
  /\ last.post \in rows

\* C10: PublishPost on a slug whose post is already Published, or that has
\* no post, returns NotFound, calls the notifier not at all and leaves the
\* rows as they were.
C10_PublishNotDraft ==
  [][ (PublishAnswered /\ DraftRows(rows, last'.slug) = {}) =>
        /\ last'.err = ErrNotFound
        /\ CallsTo(last'.calls, "publisher") = {}
        /\ rows' = rows /\ blobs' = blobs ]_vars

\* PublishPost refused a post that was already Published
C10_Witness ==
  /\ last.op = "PublishPost" /\ last.err = ErrNotFound
  /\ \E r \in rows : r.slug = last.slug /\ r.status = Published

\* C11: when the metadata store performed the Draft->Published transition
\* and the notifier call failed, PublishPost returns the published post with
\* no error and the row is Published.
C11_NotifyFailureSwallowed ==
  [][ ( /\ PublishAnswered /\ DraftRows(rows, last'.slug) # {}
        /\ \E i \in CallsTo(last'.calls, "publisher") : last'.calls[i].err # OK )
      => ( /\ last'.err = OK
           /\ last'.post.status = Published
           /\ last'.post.slug = last'.slug
           /\ last'.post \in rows'
           /\ DraftRows(rows', last'.slug) = {} ) ]_vars

\* PublishPost succeeded although its notifier call failed
C11_Witness ==
  /\ last.op = "PublishPost" /\ last.err = OK
  /\ \E i \in CallsTo(last.calls, "publisher") : last.calls[i].err = ErrAMQP
  /\ last.post \in rows /\ last.post.status = Published

\* the status of the post with this id, if it has a row
StatusOf(rs, id) == (CHOOSE r \in rs : r.id = id).status
Ids(rs) == {r.id : r \in rs}

\* C12: every post is created Draft, and a Published post stays Published
\* for as long as it has a row: no call, failed or not, returns it to Draft.
C12_StatusMonotone ==
  [][ /\ \A id \in Ids(rows') \ Ids(rows) : StatusOf(rows', id) = Draft
      /\ \A id \in Ids(rows') \cap Ids(rows) :
            StatusOf(rows, id) = Published => StatusOf(rows', id) = Published ]_vars

\* UpdatePost renamed a Published post, which is still Published
C12_Witness ==
  /\ last.op = "UpdatePost" /\ last.err = OK
  /\ last.newSlug # Nil /\ last.newSlug # last.slug
  /\ last.post \in rows /\ last.post.status = Published

\* the calls of c and d have both returned, were for the same slug and ran
\* at the same time
RacedFor(c, d) ==
  /\ c # d
  /\ pending[c].pc = "done" /\ pending[d].pc = "done"
  /\ pending[c].slug = pending[d].slug
  /\ pending[c].overlapped /\ pending[d].overlapped

\* neither the insert nor the content upload of the call of c failed
NoFatalFault(c) == pending[c].F \cap {Fault("Create"), Fault("Upload")} = {}

\* C13: of two CreatePost calls for the same slug that run at the same
\* time, never both succeed; when the slug was free (no row but the one a
\* call under way inserted) and neither call hit a failing insert or upload,
\* exactly one succeeds and the other receives the slug conflict.
C13_OneWinner ==
  \A c, d \in Callers :
    RacedFor(c, d) =>
      /\ ~(pending[c].err = OK /\ pending[d].err = OK)
      /\ (NoFatalFault(c) /\ NoFatalFault(d) /\ pending[c].free /\ pending[d].free)
           => {pending[c].err, pending[d].err} = {OK, ErrSlugExists}

\* two calls that both started before either insert have returned, one
\* with the post and the other with the slug conflict
C13_Witness ==
  \E c, d \in Callers :
    /\ RacedFor(c, d)
    /\ pending[c].free /\ pending[d].free
    /\ pending[c].err = OK /\ pending[d].err = ErrSlugExists
    /\ pending[d].id = 0
    /\ \E r \in rows : r.id = pending[c].id /\ r.slug = pending[c].slug
    /\ ContentKey(pending[c].slug) \in DOMAIN blobs

\* C14: GetPostContent returns the same NotFound both when no row has the
\* slug and when the row's content key is missing from the blob store; a
\* download that fails otherwise is returned as a download failure, which
\* is not NotFound.
C14_NotFoundKinds ==
  (last.op = "GetPostContent") =>
    /\ (NoStoreFailure(last.calls) /\ RowsWithSlug(rows, last.slug) = {})
         => last.err = ErrNotFound /\ CallsTo(last.calls, "storage") = {}
    /\ ( /\ NoStoreFailure(last.calls)
         /\ RowsWithSlug(rows, last.slug) # {}
         /\ KeyOfSlug(rows, last.slug) \notin DOMAIN blobs )
         => last.err = ErrNotFound
    /\ \A i \in CallsOf(last.calls, "storage", "Download") :
         /\ last.calls[i].err = ErrNoSuchKey => last.err = ErrNotFound
         /\ last.calls[i].err = ErrS3
              => last.err = ErrDownloadContent /\ last.err # ErrNotFound

\* GetPostContent answered NotFound for a row whose blob is missing
C14_Witness ==
  /\ last.op = "GetPostContent" /\ last.err = ErrNotFound
  /\ RowsWithSlug(rows, last.slug) # {}
  /\ KeyOfSlug(rows, last.slug) \notin DOMAIN blobs

\* the List call ListPosts made
ListCalls(calls) == CallsOf(calls, "repo", "List")

\* C15 as stated: for every page and perPage, ListPosts queries the
\* metadata store with limit = the normalized perPage and offset =
\* (page-1)*perPage of the normalized values, and a successful call reports
\* the normalized page and perPage.
C15_Normalizes ==
  (last.op = "ListPosts") =>
    LET np == IF last.page < 1 THEN 1 ELSE last.page
        npp == IF last.perPage < 1 \/ last.perPage > 100 THEN 20 ELSE last.perPage
    IN /\ ListCalls(last.calls) # {}
       /\ \A i \in ListCalls(last.calls) :
            /\ last.calls[i].limit = npp
            \* the product is a number the query's 32-bit OFFSET can carry
            /\ np - 1 <= 2147483647 \div npp
            /\ last.calls[i].offset = (np - 1) * npp
       /\ last.err = OK => last.result.page = np /\ last.result.perPage = npp

\* the least n with n * perPage >= total
CeilDiv(total, perPage) ==
  CHOOSE n \in 0..total : n * perPage >= total /\ (n = 0 \/ (n - 1) * perPage < total)

\* the largest count the rounding is checked for
MaxTotal == 40

\* TotalPages is the ceiling of total / perPage for every perPage ListPosts
\* can normalize to, and on the examples of the specification
TotalPagesIsCeil ==
  /\ \A total \in 0..MaxTotal, perPage \in 1..100 :
       TotalPages(total, perPage) = CeilDiv(total, perPage)
  /\ TotalPages(21, 20) = 2 /\ TotalPages(20, 20) = 1 /\ TotalPages(0, 20) = 0

\* C16: a successful ListPosts reports totalPages = ceil(total / perPage)
\* for the count it got and the normalized perPage, which is within 1..100.
C16_TotalPages ==
  /\ TotalPagesIsCeil
  /\ (last.op = "ListPosts" /\ last.err = OK) =>
       /\ last.result.perPage \in 1..100
       /\ last.result.total = Cardinality(RowsWithStatus(rows, last.status))
       /\ last.result.totalPages = CeilDiv(last.result.total, last.result.perPage)

\* ListPosts rounded up: one post at two per page is one page
C16_Witness ==
  /\ last.op = "ListPosts" /\ last.err = OK
  /\ last.result.total = 1 /\ last.result.perPage = 2
  /\ last.result.totalPages = 1

\* the step is an UpdatePost call on a slug that has a row, which the
\* metadata store hands over
UpdateOfRow ==
  /\ last = NoCall
  /\ last'.op = "UpdatePost"
  /\ RowsWithSlug(rows, last'.slug) # {}
  /\ last'.calls[1].err = OK

\* C17: an UpdatePost with no content and no different slug makes no blob
\* store call and calls the metadata update with the stored slug, the
\* stored content key, and the stored title unless a title is given; on
\* success the row differs from the stored one in the title at most.
C17_UnsetFieldsKept ==
  [][ ( /\ UpdateOfRow
        /\ ~last'.hasContent
        /\ last'.newSlug \in {Nil, last'.slug} )
      => LET r == CHOOSE x \in rows : x.slug = last'.slug
             t == IF last'.title = Nil THEN r.title ELSE last'.title
             u == last'.calls[2]
         IN /\ CallsTo(last'.calls, "storage") = {}
            /\ blobs' = blobs
            /\ Len(last'.calls) = 2
            /\ u.svc = "repo" /\ u.op = "Update"
            /\ u.id = r.id /\ u.slug = r.slug /\ u.key = r.s3Key /\ u.title = t
            /\ last'.err = u.err
            /\ last'.err = OK =>
                 /\ last'.post = [r EXCEPT !.title = t]
                 /\ rows' = (rows \ {r}) \cup {last'.post} ]_vars

\* UpdatePost was given the current slug and nothing else, on a post whose
\* title an earlier UpdatePost had changed, and kept that title
C17_Witness ==
  /\ last.op = "UpdatePost" /\ last.err = OK
  /\ ~last.hasContent /\ last.title = Nil /\ last.newSlug = last.slug
  /\ last.post \in rows /\ last.post.title \in UpdateTitles
  /\ last.post.s3Key \in DOMAIN blobs

\* the uploads of the content key of slug among calls that succeeded
ContentUploads(calls, slug) ==
  {i \in CallsOf(calls, "storage", "Upload") :
     calls[i].key = ContentKey(slug) /\ calls[i].err = OK}

\* C18: when UpdatePost is given content and a different slug and its
\* upload succeeds, the processed content is at posts/{newSlug}.md, the
\* old content key is deleted by one call whose failure is dropped, and the
\* metadata update is called with the new slug and the new content key; its
\* answer is the call's result, so the row is updated whether or not the
\* deletion worked.
C18_OldKeyBestEffort ==
  [][ ( /\ UpdateOfRow
        /\ last'.hasContent
        /\ last'.newSlug # Nil /\ last'.newSlug # last'.slug
        /\ ContentUploads(last'.calls, last'.newSlug) # {} )
      => LET r == CHOOSE x \in rows : x.slug = last'.slug
             newKey == ContentKey(last'.newSlug)
             oldKey == ContentKey(last'.slug)
             dels == CallsOf(last'.calls, "storage", "Delete")
             u == last'.calls[Len(last'.calls)]
         IN /\ newKey \in DOMAIN blobs' /\ blobs'[newKey] = last'.processed
            /\ ImagesReplaced(last'.content, last'.processed)
            /\ Cardinality(dels) = 1
            /\ \A i \in dels :
                 /\ last'.calls[i].key = oldKey
                 /\ \A j \in ContentUploads(last'.calls, last'.newSlug) : j < i
                 /\ last'.calls[i].err = OK => oldKey \notin DOMAIN blobs'
            /\ u.svc = "repo" /\ u.op = "Update"
            /\ u.id = r.id /\ u.slug = last'.newSlug /\ u.key = newKey
            /\ last'.err = u.err
            /\ last'.err = OK =>
                 /\ last'.post \in rows'
                 /\ last'.post.id = r.id
                 /\ last'.post.slug = last'.newSlug
                 /\ last'.post.s3Key = newKey ]_vars

\* UpdatePost with content and a new slug succeeded although the deletion
\* of the old content key failed; the old blob is still there
C18_Witness ==
  /\ last.op = "UpdatePost" /\ last.err = OK
  /\ last.hasContent /\ last.newSlug # Nil /\ last.newSlug # last.slug
  /\ FailedCalls(last.calls, "storage", "Delete") # {}
  /\ last.post \in rows /\ last.post.slug = last.newSlug
  /\ ContentKey(last.slug) \in DOMAIN blobs
  /\ ContentKey(last.newSlug) \in DOMAIN blobs

\* C19: when UpdatePost changes the slug without content and the download
\* of the current content fails, UpdatePost returns the download failure
\* having made no other blob store call and no metadata update; the rows
\* and the blobs are as they were.
C19_DownloadFatal ==
  [][ ( /\ UpdateOfRow
        /\ ~last'.hasContent
        /\ last'.newSlug # Nil /\ last'.newSlug # last'.slug
        /\ FailedCalls(last'.calls, "storage", "Download") # {} )
      => /\ last'.err = ErrDownload
         /\ Len(last'.calls) = 2
         /\ CallsOf(last'.calls, "storage", "Upload") = {}
         /\ CallsOf(last'.calls, "storage", "Delete") = {}
         /\ CallsOf(last'.calls, "repo", "Update") = {}
         /\ rows' = rows /\ blobs' = blobs ]_vars

\* UpdatePost failed on a download that failed as a call; the row and the
\* old blob are still there
C19_Witness ==
  /\ last.op = "UpdatePost" /\ last.err = ErrDownload
  /\ \E i \in CallsOf(last.calls, "storage", "Download") : last.calls[i].err = ErrS3
  /\ RowsWithSlug(rows, last.slug) # {}
  /\ KeyOfSlug(rows, last.slug) \in DOMAIN blobs
  /\ ContentKey(last.newSlug) \notin DOMAIN blobs

\* an embedded image the pipeline has to accept: an allowed subtype in any
\* case, and a base64 payload (line breaks aside) of at most 5 MiB
Acceptable(p) ==
  /\ p.t = "img"
  /\ p.sub \in {"png", "PNG", "jpeg", "jpg", "webp", "gif"}
  /\ p.b64 \in {"QUJD", "QU\nJD\r", "MAX"}

\* the subtype in lower case
LowerCased(sub) == IF sub = "PNG" THEN "png" ELSE sub

\* the uploads of images among calls
ImageUploads(calls) ==
  {i \in CallsOf(calls, "storage", "Upload") : calls[i].key.kind = "img"}

\* the call in last ran the image pipeline, on a document with one image,
\* for the slug it writes under
PipelineRan ==
  /\ last.op \in {"CreatePost", "UpdatePost"}
  /\ last.hasContent
  /\ last.calls[1].err = OK
  /\ Cardinality({i \in DOMAIN last.content : last.content[i].t = "img"}) = 1
PipelineSlug == IF last.newSlug # Nil THEN last.newSlug ELSE last.slug

\* C20: the pipeline replaces an embedded image by ![alt](url), alt kept
\* and url naming the uploaded key posts/{slug}/images/{id}.{subtype in
\* lower case}, exactly when the image is acceptable and its upload
\* succeeds; an image of a subtype that is not allowed, of an undecodable
\* payload or of more than 5 MiB is left as it was and nothing is uploaded
\* for it; every other part of the document is left as it was.
C20_ImageReplacedIff ==
  PipelineRan =>
    /\ Len(last.processed) = Len(last.content)
    /\ \A i \in DOMAIN last.content :
         LET p == last.content[i]
             q == last.processed[i]
             ups == ImageUploads(last.calls)
             done == {j \in ups : last.calls[j].err = OK}
         IN IF p.t # "img" THEN q = p
            ELSE /\ (q # p) <=> (Acceptable(p) /\ done # {})
                 /\ ~Acceptable(p) => ups = {}
                 /\ Acceptable(p) => Cardinality(ups) = 1
                 /\ q # p =>
                      /\ q.t = "ref" /\ q.alt = p.alt
                      /\ q.url.base = s3PublicBaseURL
                      /\ \A j \in done : q.url.key = last.calls[j].key
                      /\ q.url.key.kind = "img"
                      /\ q.url.key.slug = PipelineSlug
                      /\ q.url.key.ext = LowerCased(p.sub)
                      /\ q.url.key \in DOMAIN blobs

\* the pipeline replaced an image given with an upper-case subtype, and
\* the document was written with the reference
C20_Witness ==
  /\ PipelineRan /\ last.err = OK
  /\ \E i \in DOMAIN last.content :
       /\ last.content[i].t = "img" /\ last.content[i].sub = "PNG"
       /\ last.processed[i].t = "ref"
       /\ last.processed[i].url.key.ext = "png"
       /\ last.processed[i].url.key \in DOMAIN blobs

\* the uploads of images that failed, and the parts they were for
FailedImageUploads(calls) == {j \in ImageUploads(calls) : calls[j].err # OK}
FailedImageParts(calls) == {calls[j].id : j \in FailedImageUploads(calls)}

\* the store calls of last after the pipeline's, none of which failed
RestSucceeded ==
  \A j \in DOMAIN last.calls :
    (j \notin ImageUploads(last.calls) /\ j > 1) => last.calls[j].err = OK

\* C21: when the upload of an extracted image fails, the pipeline leaves
\* that image's data-URL text as it was, and the write goes on: CreatePost
\* or UpdatePost still uploads the document, that text in it, and succeeds
\* when nothing else fails.
C21_ImageFailureLocal ==
  (PipelineRan /\ FailedImageUploads(last.calls) # {}) =>
    /\ \A i \in FailedImageParts(last.calls) : last.processed[i] = last.content[i]
    /\ \E j \in CallsOf(last.calls, "storage", "Upload") :
         /\ last.calls[j].key = ContentKey(PipelineSlug)
         /\ \A k \in FailedImageUploads(last.calls) : k < j
    /\ RestSucceeded =>
         /\ last.err = OK
         /\ ContentKey(PipelineSlug) \in DOMAIN blobs
         /\ blobs[ContentKey(PipelineSlug)] = last.processed
         /\ \A i \in FailedImageParts(last.calls) :
              blobs[ContentKey(PipelineSlug)][i] = last.content[i]

\* an image upload failed in CreatePost and in UpdatePost, and the call
\* succeeded with the image's text in the document it wrote
C21_Witness ==
  /\ PipelineRan /\ FailedImageUploads(last.calls) # {} /\ last.err = OK
  /\ last.op = "UpdatePost"
  /\ \E i \in FailedImageParts(last.calls) :
       /\ last.content[i].t = "img"
       /\ blobs[ContentKey(PipelineSlug)][i] = last.content[i]

\* the call in last ran the image pipeline on a document with several
\* embedded images
SiblingsRan ==
  /\ last.op \in {"CreatePost", "UpdatePost"}
  /\ last.hasContent
  /\ last.calls[1].err = OK
  /\ Cardinality({i \in DOMAIN last.content : last.content[i].t = "img"}) > 1

\* the uploads made for the image at part i of the document
UploadsFor(calls, i) == {j \in ImageUploads(calls) : calls[j].id = i}

C23_RowInvariant ==
  /\ \A r \in rows : r.s3Key = ContentKey(r.slug)
  /\ \A r1, r2 \in rows : r1.slug = r2.slug => r1 = r2
  /\ (last.op \in {"CreatePost", "UpdatePost"} /\ last.err = OK) =>
       /\ last.post \in rows
       /\ last.post.s3Key = ContentKey(last.post.slug)

\* UpdatePost renamed a post without content and the row carries the key
\* of the new slug, whose blob exists
C23_Witness ==
  /\ last.op = "UpdatePost" /\ last.err = OK
  /\ ~last.hasContent /\ last.newSlug # Nil /\ last.newSlug # last.slug
  /\ last.post \in rows /\ last.post.slug = last.newSlug
  /\ last.post.s3Key = ContentKey(last.newSlug)
  /\ ContentKey(last.newSlug) \in DOMAIN blobs

\* C30: DeletePost deletes the row last: the deletion of the row is
\* attempted only after the deletion of the content blob and the deletion
\* of the image prefix have both been made and succeeded, and the row is
\* gone only if that attempt succeeded; when the deletion of the image
\* prefix fails DeletePost returns an error, the row is still there and
\* its deletion was not attempted.
C30_RowDeletedLast ==
  (last.op = "DeletePost" /\ last.calls[1].err = OK) =>
    LET rowDel == CallsOf(last.calls, "repo", "Delete")
        blobDel == CallsOf(last.calls, "storage", "Delete")
        prefDel == CallsOf(last.calls, "storage", "DeletePrefix")
    IN /\ \A j \in rowDel :
            /\ j = Len(last.calls)
            /\ \E i \in blobDel : last.calls[i].key = last.post.s3Key
            /\ prefDel # {}
            /\ \A i \in blobDel \cup prefDel : i < j /\ last.calls[i].err = OK
       /\ last.post \notin rows => \E j \in rowDel : last.calls[j].err = OK
       /\ FailedCalls(last.calls, "storage", "DeletePrefix") # {} =>
            /\ last.err = ErrDeleteImages
            /\ last.post \in rows
            /\ rowDel = {}

\* the deletion of the image prefix failed after the content blob had been
\* deleted, and the row is still there
C30_Witness ==
  /\ last.op = "DeletePost" /\ last.err = ErrDeleteImages
  /\ FailedCalls(last.calls, "storage", "DeletePrefix") # {}
  /\ last.post \in rows
  /\ last.post.s3Key \notin DOMAIN blobs

\* the step is an UpdatePost call that fails on the slug of another post
UpdateConflict ==
  /\ last = NoCall
  /\ last'.op = "UpdatePost" /\ last'.err = ErrSlugExists

\* C26: an UpdatePost that returns the slug-collision error because the
\* new slug belongs to another post leaves that post's row and the blob at
\* posts/{newSlug}.md as they were before the call.
C26_ConflictLeavesOther ==
  [][ UpdateConflict =>
        LET key == ContentKey(last'.newSlug)
        IN /\ \A r \in RowsWithSlug(rows, last'.newSlug) : r \in rows'
           /\ key \in DOMAIN blobs =>
                key \in DOMAIN blobs' /\ blobs'[key] = blobs[key] ]_vars

\* last is the response of the handler of route
Answered(route) == "route" \in DOMAIN last /\ last.route = route

\* C24: PUT /posts/{slug} answers 409 when UpdatePost fails with the
\* slug-collision error and 404 when it fails with the not-found error; a
\* slug collision is never answered with 500.
C24_UpdateStatus ==
  (Answered("PUT /posts/{slug}") /\ last.op = "UpdatePost") =>
    /\ last.err = ErrSlugExists => last.code = StatusConflict
    /\ last.err = ErrNotFound => last.code = StatusNotFound
    /\ last.err = ErrSlugExists => last.code # StatusInternalServerError

\* C25: DELETE /posts/{slug} answers 404 when DeletePost fails with the
\* not-found error and 204 when DeletePost succeeds.
C25_DeleteStatus ==
  (Answered("DELETE /posts/{slug}") /\ last.op = "DeletePost") =>
    /\ last.err = ErrNotFound => last.code = StatusNotFound
    /\ last.err = OK => last.code = StatusNoContent

\* the step is the compensating delete of the CreatePost call of c
Compensates(c) == pending[c].pc = "Compensate" /\ pending'[c].pc = "done"

\* C28: the compensating delete of a failed CreatePost removes no row but
\* the one that call inserted, whatever CreatePost calls and renames by
\* UpdatePost ran between its insert and its compensation.
C28_CompensatesOwnRow ==
  [][ \A c \in Callers :
        Compensates(c) => \A r \in rows \ rows' : r.id = pending[c].id ]_vars

\* c and d have both returned from calls of op on the same slug that
\* overlapped, c having started first
Raced(c, d, op) ==
  /\ c # d
  /\ pending[c].pc = "done" /\ pending[d].pc = "done"
  /\ pending[c].op = op /\ pending[d].op = op
  /\ pending[c].slug = pending[d].slug
  /\ pending[c].overlapped /\ pending[d].overlapped
  /\ pending[c].first

\* the call of c returned the published post of its slug
ReturnedPublished(c) ==
  /\ pending[c].err = OK
  /\ pending[c].post \in rows
  /\ pending[c].post.slug = pending[c].slug
  /\ pending[c].post.status = Published

\* C29: of two PublishPost calls for the same draft that overlap, the
\* metadata store answering both, exactly one returns the published post
\* and the other returns the not-found error, and the notifier is called
\* exactly once, for that post.
C29_OnePublisher ==
  \A c, d \in Callers :
    ( /\ Raced(c, d, "PublishPost")
      /\ pending[c].draft
      /\ Fault("Publish") \notin pending[c].F \cup pending[d].F ) =>
      /\ \E w \in {c, d} :
           /\ ReturnedPublished(w)
           /\ \A l \in {c, d} \ {w} :
                pending[l].err = ErrNotFound /\ pending[l].post = NoPost /\ pending[l].calls = <<>>
           /\ Len(pending[w].calls) = 1
           /\ pending[w].calls[1].id = pending[w].post.id
           /\ pending[w].calls[1].slug = pending[w].slug

\* two overlapping PublishPost calls for the same draft have returned, the
\* one that started first with the not-found error
C29_Witness ==
  \E c, d \in Callers :
    /\ Raced(c, d, "PublishPost")
    /\ pending[c].draft
    /\ pending[c].err = ErrNotFound
    /\ ReturnedPublished(d)
    /\ Len(pending[d].calls) = 1

\* c and d have both returned from overlapping calls on the same post, an
\* UpdatePost and an UpdatePost or a DeletePost, c having started first
\* on consistent stores
RacedWrites(c, d) ==
  /\ c # d
  /\ pending[c].pc = "done" /\ pending[d].pc = "done"
  /\ {pending[c].op, pending[d].op} \in {{"UpdatePost"}, {"UpdatePost", "DeletePost"}}
  /\ pending[c].slug = pending[d].slug
  /\ pending[c].overlapped /\ pending[d].overlapped
  /\ pending[c].first /\ pending[c].clean

\* C27: with no store failure, once two overlapping calls on the same post
\* (UpdatePost with UpdatePost, or UpdatePost with DeletePost) have both
\* returned, the content blob of every row exists and every content blob
\* is the blob of some row.
C27_RaceKeepsStoresConsistent ==
  \A c, d \in Callers : RacedWrites(c, d) => Consistent(rows, blobs)

\* the step is a DeletePost call made when every row's content blob exists
\* and every content blob is the blob of a row
DeleteStep == last = NoCall /\ last'.op = "DeletePost" /\ Consistent(rows, blobs)

\* the image blobs a document refers to
ImageRefs(doc) == {doc[i].url.key : i \in {j \in DOMAIN doc : doc[j].t = "ref"}}

\* C31: DeletePost(slug) leaves every post of another slug untouched: its
\* row, its content blob and the image blobs its content refers to are
\* after the call as they were before it; and DeletePost of a slug with no
\* post returns the not-found error without a call on the blob store.
C31_DeleteLeavesOthers ==
  [][ DeleteStep =>
        /\ \A r \in rows :
             r.slug # last'.slug =>
               /\ r \in rows'
               /\ r.s3Key \in DOMAIN blobs =>
                    /\ r.s3Key \in DOMAIN blobs'
                    /\ blobs'[r.s3Key] = blobs[r.s3Key]
                    /\ \A k \in ImageRefs(blobs[r.s3Key]) \cap DOMAIN blobs :
                         k \in DOMAIN blobs' /\ blobs'[k] = blobs[k]
        /\ RowsWithSlug(rows, last'.slug) = {} =>
             /\ last'.err = ErrNotFound
             /\ CallsTo(last'.calls, "storage") = {}
             /\ blobs' = blobs ]_vars

\* the step is a CreatePost call that fails
CreateFails == last = NoCall /\ last'.op = "CreatePost" /\ last'.err # OK

\* C32: a CreatePost that fails leaves the blob store as it was before the
\* call; when the content upload fails after the pipeline has uploaded
\* images, no image blob written by the call remains.
C32_FailedCreateLeavesBlobs ==
  [][ CreateFails =>
        /\ blobs' = blobs
        /\ \A i \in ImageUploads(last'.calls) :
             last'.calls[i].key \in DOMAIN blobs' => last'.calls[i].key \in DOMAIN blobs ]_vars

\* the step is an UpdatePost call in which the upload of the document
\* failed
UpdateUploadFails ==
  /\ last = NoCall
  /\ last'.op = "UpdatePost"
  /\ \E i \in FailedCalls(last'.calls, "storage", "Upload") : last'.calls[i].key.kind = "md"

\* C33: when the upload of the document fails in UpdatePost (content
\* given, or the re-upload of a rename without content), UpdatePost returns
\* the upload failure, does not update the row and deletes no blob: the
\* rows and every blob there was, the one at the old content key included,
\* are as before.
C33_UploadFailureLeavesPost ==
  [][ UpdateUploadFails =>
        /\ last'.err = ErrUpload
        /\ rows' = rows
        /\ CallsOf(last'.calls, "repo", "Update") = {}
        /\ CallsOf(last'.calls, "storage", "Delete") = {}
        /\ \A k \in DOMAIN blobs : k \in DOMAIN blobs' /\ blobs'[k] = blobs[k] ]_vars

\* the re-upload of a rename without content failed, and the row and the
\* blob at its content key are still there
C33_Witness ==
  /\ last.op = "UpdatePost" /\ last.err = ErrUpload
  /\ ~last.hasContent /\ last.newSlug # Nil /\ last.newSlug # last.slug
  /\ FailedCalls(last.calls, "storage", "Upload") # {}
  /\ RowsWithSlug(rows, last.slug) # {}
  /\ ContentKey(last.slug) \in DOMAIN blobs
  /\ ContentKey(last.newSlug) \notin DOMAIN blobs

\* C34: when the content upload of CreatePost fails and the compensating
\* delete of the row fails too, CreatePost returns the upload failure,
\* never the error of the compensation.
C34_UploadErrorReturned ==
  (last.op = "CreatePost" /\ FailedCalls(last.calls, "repo", "Delete") # {}) =>
    /\ \E i \in FailedCalls(last.calls, "storage", "Upload") :
         /\ last.calls[i].key = ContentKey(last.slug)
         /\ \A j \in FailedCalls(last.calls, "repo", "Delete") : i < j
    /\ last.err = ErrUpload
    /\ \A j \in FailedCalls(last.calls, "repo", "Delete") : last.err # last.calls[j].err

\* the upload and the compensating delete both failed: the row is still
\* there and the error is the upload failure
C34_Witness ==
  /\ last.op = "CreatePost" /\ last.err = ErrUpload
  /\ FailedCalls(last.calls, "repo", "Delete") # {}
  /\ FailedCalls(last.calls, "storage", "Upload") # {}
  /\ RowsWithSlug(rows, last.slug) # {}

\* the keys UpdatePost wrote a document at, and the keys it deleted
WrittenKeys(calls) ==
  {calls[i].key : i \in {j \in CallsOf(calls, "storage", "Upload") : calls[j].key.kind = "md"}}
DeletedKeys(calls) == {calls[i].key : i \in CallsOf(calls, "storage", "Delete")}

\* C35: UpdatePost never deletes the key it has just written: it deletes
\* an old key only when the slug in effect differs from the current slug;
\* called with a new slug equal to the current one, or none, with or
\* without content, it deletes no blob and downloads none, and the blob it
\* wrote is there afterwards.
C35_NeverDeletesWrittenKey ==
  (last.op = "UpdatePost" /\ last.calls[1].err = OK) =>
    /\ WrittenKeys(last.calls) \cap DeletedKeys(last.calls) = {}
    /\ DeletedKeys(last.calls) # {} => (last.newSlug # Nil /\ last.newSlug # last.slug)
    /\ last.newSlug \in {Nil, last.slug} =>
         /\ DeletedKeys(last.calls) = {}
         /\ CallsOf(last.calls, "storage", "Download") = {}
         /\ (last.hasContent /\ NoStoreFailure(last.calls)) =>
              /\ WrittenKeys(last.calls) = {ContentKey(last.slug)}
              /\ ContentKey(last.slug) \in DOMAIN blobs
              /\ blobs[ContentKey(last.slug)] = last.processed

\* UpdatePost was given content and the current slug as the new slug: it
\* wrote the document at the post's key and deleted nothing
C35_Witness ==
  /\ last.op = "UpdatePost" /\ last.err = OK
  /\ last.hasContent /\ last.newSlug = last.slug
  /\ DeletedKeys(last.calls) = {}
  /\ blobs[ContentKey(last.slug)] = last.processed

\* the step is a call that runs the image pipeline
PipelineStep ==
  /\ last = NoCall
  /\ last'.op \in {"CreatePost", "UpdatePost"}
  /\ last'.hasContent
  /\ last'.calls[1].err = OK

\* the keys of the image uploads of a call
ImageUploadKeys(calls) == {calls[i].key : i \in ImageUploads(calls)}

\* C36: every image the pipeline accepts is uploaded exactly once, under
\* a key posts/{slug}/images/{id}.{ext} that is new: the keys of the image
\* uploads of a call are pairwise distinct and none is the key of a blob
\* there was before the call, so an image upload overwrites nothing; and a
\* call makes at most as many image uploads as the document has embedded
\* images.
C36_FreshImageKeys ==
  [][ PipelineStep =>
        LET ups == ImageUploads(last'.calls)
            imgs == {i \in DOMAIN last'.content : last'.content[i].t = "img"}
        IN /\ Cardinality(ImageUploadKeys(last'.calls)) = Cardinality(ups)
           /\ ImageUploadKeys(last'.calls) \cap DOMAIN blobs = {}
           /\ Cardinality(ups) <= Cardinality(imgs)
           /\ \A i \in imgs :
                Acceptable(last'.content[i]) =>
                  Cardinality({j \in ups : last'.calls[j].id = i}) = 1
           /\ \A j \in ups :
                /\ last'.calls[j].key.kind = "img"
                /\ last'.calls[j].key.slug =
                     (IF last'.newSlug # Nil THEN last'.newSlug ELSE last'.slug)
           /\ \A k \in DOMAIN blobs :
                k.kind = "img" => k \in DOMAIN blobs' /\ blobs'[k] = blobs[k] ]_vars

\* a call uploaded two images under two keys while the blob store held an
\* image of an earlier call under the same slug
C36_Witness ==
  /\ last.op \in {"CreatePost", "UpdatePost"} /\ last.hasContent
  /\ Cardinality({k \in ImageUploadKeys(last.calls) : k \in DOMAIN blobs}) = 2
  /\ \E k \in DOMAIN blobs :
       /\ k.kind = "img" /\ k \notin ImageUploadKeys(last.calls)
       /\ \A u \in ImageUploadKeys(last.calls) : u.slug = k.slug

(***************************************************************************)
(* handlers/health.go: GET /health                                         *)
(***************************************************************************)
StatusServiceUnavailable == 503

\* Health: ping is the error of deps.DB.PingContext, exists the error of
\* deps.Storage.Exists(ctx, "__health__"), dial the error of amqp.Dial,
\* which is called only when deps.RabbitMQURL is not empty
Health(ping, exists, rabbitMQURL, dial) ==
  LET s0 == "healthy"
      s1 == IF ping # OK THEN "unhealthy" ELSE s0
      s2 == IF exists # OK THEN "unhealthy" ELSE s1
      s3 == IF rabbitMQURL # "" /\ dial # OK THEN "degraded" ELSE s2
      checks == [db |-> IF ping # OK THEN "unhealthy" ELSE "ok",
                 s3 |-> IF exists # OK THEN "unhealthy" ELSE "ok",
                 rabbitmq |-> IF rabbitMQURL = "" THEN "skipped"
                              ELSE IF dial # OK THEN "unhealthy" ELSE "ok"]
  IN [route |-> "GET /health",
      code |-> IF s3 = "unhealthy" THEN StatusServiceUnavailable ELSE StatusOK,
      errCode |-> "", status |-> s3, checks |-> checks,
      ping |-> ping, exists |-> exists, rabbitMQURL |-> rabbitMQURL, dial |-> dial]

\* a request GET /health; the stores and the broker answer or fail
GetHealth ==
  \E ping \in {OK, ErrDB}, exists \in {OK, ErrS3},
     rabbitMQURL \in {"", "amqp://broker"}, dial \in {OK, ErrAMQP} :
    /\ last = NoCall
    /\ rabbitMQURL = "" => dial = OK
    /\ last' = Health(ping, exists, rabbitMQURL, dial) @@ NoCall
    /\ UNCHANGED <<rows, blobs, nextId, nextUUID, pending, publisher>>

\* the health endpoint of a server that is creating posts
NextHealth ==
  \/ Return
  \/ CreatePostReliable
  \/ GetHealth

SpecHealth == Init /\ [][NextHealth]_vars

\* the response is one of GET /health
HealthAnswered == "status" \in DOMAIN last

\* C37: GET /health answers 503 with status "unhealthy" whenever the
\* database check or the blob-store check fails, whatever the broker check
\* gives; when only the broker check fails it answers 200 with status
\* "degraded".
C37_HealthStatus ==
  HealthAnswered =>
    /\ (last.ping # OK \/ last.exists # OK) =>
          last.code = StatusServiceUnavailable /\ last.status = "unhealthy"
    /\ (last.ping = OK /\ last.exists = OK /\ last.dial # OK) =>
          last.code = StatusOK /\ last.status = "degraded"

(***************************************************************************)
(* events: RabbitMQPublisher, PublishPostPublished and Close called by     *)
(* several goroutines. Each step is one statement of the method; a caller  *)
(* waiting for the mutex or for the sync.Once has no step enabled.         *)
(***************************************************************************)
ErrClosed == "publisher closed"

\* a call of a method of the publisher: afterClose tells that a call of
\* Close had returned when this call started, used is the state of the
\* channel PublishWithContext was called on
PublisherCall(op, pc, afterClose) ==
  [op |-> op, pc |-> pc, err |-> OK, afterClose |-> afterClose, used |-> "none"]

\* a mutex anybody may take at any time
MuFreeAlways(mu) == TRUE

\* p.mu.Lock() returns once nobody holds the mutex
MuFree(mu) == mu = Nil

\* RabbitMQPublisher.PublishPostPublished, called by c
PublishPostPublished(c) ==
  /\ UNCHANGED <<rows, blobs, nextId, nextUUID, last>>
  /\ \/ /\ pending[c].pc = "idle"
        /\ pending' = [pending EXCEPT
                         ![c] = PublisherCall("Publish", "lock", publisher.closeReturned)]
        /\ UNCHANGED publisher
     \/ /\ pending[c].pc = "lock" /\ pending[c].op = "Publish"
        /\ MuFree(publisher.mu)
        /\ publisher' = [publisher EXCEPT !.mu = c]
        /\ pending' = [pending EXCEPT ![c].pc = "check"]
     \/ /\ pending[c].pc = "check"
        /\ pending' = [pending EXCEPT
                         ![c] = IF publisher.channel = Nil
                                THEN [@ EXCEPT !.pc = "unlock", !.err = ErrClosed]
                                ELSE [@ EXCEPT !.pc = "send"]]
        /\ UNCHANGED publisher
     \/ /\ pending[c].pc = "send"
        /\ \E err \in {OK, ErrAMQP} :
             pending' = [pending EXCEPT
                           ![c] = [@ EXCEPT !.pc = "unlock", !.err = err,
                                            !.used = publisher.channel]]
        /\ UNCHANGED publisher
     \/ /\ pending[c].pc = "unlock" /\ pending[c].op = "Publish"
        /\ publisher' = [publisher EXCEPT !.mu = Nil]
        /\ pending' = [pending EXCEPT ![c].pc = "done"]

\* RabbitMQPublisher.Close, called by c: the body runs under p.once, the
\* callers that find the Once running wait for it
Close(c) ==
  /\ UNCHANGED <<rows, blobs, nextId, nextUUID, last>>
  /\ \/ /\ pending[c].pc = "idle"
        /\ pending' = [pending EXCEPT
                         ![c] = PublisherCall("Close", "once", publisher.closeReturned)]
        /\ UNCHANGED publisher
     \/ /\ pending[c].pc = "once" /\ publisher.once = "new"
        /\ publisher' = [publisher EXCEPT !.once = "running"]
        /\ pending' = [pending EXCEPT ![c].pc = "lock"]
     \/ /\ pending[c].pc = "once" /\ publisher.once = "done"
        /\ publisher' = [publisher EXCEPT !.closeReturned = TRUE]
        /\ pending' = [pending EXCEPT ![c].pc = "done"]
     \/ /\ pending[c].pc = "lock" /\ pending[c].op = "Close"
        /\ MuFree(publisher.mu)
        /\ publisher' = [publisher EXCEPT !.mu = c]
        /\ pending' = [pending EXCEPT ![c].pc = "channel"]
     \/ /\ pending[c].pc = "channel"
        /\ IF publisher.channel # Nil
           THEN /\ publisher' = [publisher EXCEPT !.channel = "closed",
                                                  !.channelCloses = @ + 1]
                /\ pending' = [pending EXCEPT ![c].pc = "channel_nil"]
           ELSE /\ pending' = [pending EXCEPT ![c].pc = "conn"]
                /\ UNCHANGED publisher
     \/ /\ pending[c].pc = "channel_nil"
        /\ publisher' = [publisher EXCEPT !.channel = Nil]
        /\ pending' = [pending EXCEPT ![c].pc = "conn"]
     \/ /\ pending[c].pc = "conn"
        /\ IF publisher.conn # Nil
           THEN /\ publisher' = [publisher EXCEPT !.conn = "closed",
                                                  !.connCloses = @ + 1]
                /\ pending' = [pending EXCEPT ![c].pc = "conn_nil"]
           ELSE /\ pending' = [pending EXCEPT ![c].pc = "unlock"]
                /\ UNCHANGED publisher
     \/ /\ pending[c].pc = "conn_nil"
        /\ publisher' = [publisher EXCEPT !.conn = Nil]
        /\ pending' = [pending EXCEPT ![c].pc = "unlock"]
     \/ /\ pending[c].pc = "unlock" /\ pending[c].op = "Close"
        /\ publisher' = [publisher EXCEPT !.mu = Nil, !.once = "done",
                                          !.closeReturned = TRUE]
        /\ pending' = [pending EXCEPT ![c].pc = "done"]

\* the caller takes the result of its call on the publisher
PublisherReturn(c) ==
  /\ pending[c].pc = "done"
  /\ pending' = [pending EXCEPT ![c] = Idle]
  /\ UNCHANGED <<rows, blobs, nextId, nextUUID, last, publisher>>

NextPublisher ==
  \E c \in Callers :
    \/ PublishPostPublished(c)
    \/ Close(c)
    \/ PublisherReturn(c)

SpecPublisher == Init /\ [][NextPublisher]_vars

\* c is in a call of op on the publisher
InCall(c, op) == pending[c].pc # "idle" /\ pending[c].op = op

\* C38: PublishPostPublished and Close may run concurrently: a publish
\* calls PublishWithContext only on the open channel, never on a closed or
\* nil one; a publish that started after a call of Close had returned
\* returns the error "publisher closed"; and however many times Close is
\* called the channel and the connection are closed once.
C38_PublisherSafe ==
  /\ \A c \in Callers :
       InCall(c, "Publish") =>
         /\ pending[c].used \in {"none", "open"}
         /\ (pending[c].afterClose /\ pending[c].pc = "done") =>
               pending[c].err = ErrClosed /\ pending[c].used = "none"
  /\ publisher.channelCloses <= 1
  /\ publisher.connCloses <= 1
  /\ publisher.closeReturned =>
       /\ publisher.channelCloses = 1 /\ publisher.connCloses = 1
       /\ publisher.channel = Nil /\ publisher.conn = Nil

\* a second call of Close has returned after the publisher was closed, while
\* a publish started after the first one holds the mutex and returns
\* "publisher closed"
C38_Witness ==
  \E c \in Callers : \E d \in Callers \ {c} :
    /\ InCall(c, "Publish") /\ pending[c].afterClose
    /\ pending[c].pc = "unlock" /\ pending[c].err = ErrClosed
    /\ InCall(d, "Close") /\ pending[d].afterClose /\ pending[d].pc = "done"

\* a call of Close waits for the mutex held by a publish that is sending
PublishDuringClose ==
  \E c \in Callers : \E d \in Callers \ {c} :
    /\ InCall(c, "Publish") /\ pending[c].pc = "send" /\ publisher.mu = c
    /\ InCall(d, "Close") /\ pending[d].pc = "lock"

(***************************************************************************)
(* middleware/auth.go: APIKey. Header values are sequences of characters.  *)
(***************************************************************************)
StatusUnauthorized == 401

\* strings.HasPrefix
HasPrefix(s, prefix) ==
  Len(s) >= Len(prefix) /\ SubSeq(s, 1, Len(prefix)) = prefix

\* strings.TrimSpace: the white space at both ends removed
IsSpace(ch) == ch \in {" ", "\t"}
RECURSIVE TrimLeft(_)
TrimLeft(s) ==
  IF s # <<>> /\ IsSpace(Head(s)) THEN TrimLeft(Tail(s)) ELSE s
RECURSIVE TrimRight(_)
TrimRight(s) ==
  IF s # <<>> /\ IsSpace(s[Len(s)]) THEN TrimRight(SubSeq(s, 1, Len(s) - 1)) ELSE s
TrimSpace(s) == TrimRight(TrimLeft(s))

\* the constant prefix of extractAPIKey
bearerPrefix == <<"B", "e", "a", "r", "e", "r", " ">>

\* extractAPIKey: X-API-Key if it is set, else the token of a Bearer
\* Authorization header, else the empty string
extractAPIKey(xAPIKey, authorization) ==
  IF xAPIKey # <<>> THEN xAPIKey
  ELSE IF HasPrefix(authorization, bearerPrefix)
  THEN TrimSpace(SubSeq(authorization, Len(bearerPrefix) + 1, Len(authorization)))
  ELSE <<>>

\* an exemption of every request to /health, whatever its method
IsHealthCheckAnyMethod(method, path) == path = "/health"

\* the request the middleware lets through without a key
IsHealthCheck(method, path) == path = "/health" /\ method = "GET"

\* subtle.ConstantTimeCompare(x, y) = 1
ConstantTimeEqual(x, y) == Len(x) = Len(y) /\ \A i \in 1..Len(x) : x[i] = y[i]

\* APIKey(apiKey)(next) serving a request: next tells that next.ServeHTTP
\* was called, code is the status the middleware wrote (0: none)
APIKey(apiKey, method, path, xAPIKey, authorization) ==
  LET key == extractAPIKey(xAPIKey, authorization)
      through == [next |-> TRUE, code |-> 0]
  IN [route |-> "APIKey", apiKey |-> apiKey, method |-> method, path |-> path,
      xAPIKey |-> xAPIKey, authorization |-> authorization] @@
     (IF apiKey = <<>> THEN through
      ELSE IF IsHealthCheck(method, path) THEN through
      ELSE IF key = <<>> \/ ~ConstantTimeEqual(apiKey, key)
      THEN [next |-> FALSE, code |-> StatusUnauthorized]
      ELSE through)

\* the keys a deployment configures, and the headers requests carry
APIKeys == {<<>>, <<"k", "1">>, <<" ", "k">>}
XAPIKeyHeaders == {<<>>, <<"k", "1">>, <<"k", "2">>, <<" ", "k">>, <<"k">>}
AuthorizationHeaders ==
  {<<>>, bearerPrefix, <<"k", "1">>,
   bearerPrefix \o <<"k", "1">>, bearerPrefix \o <<" ", "k", "1", " ">>,
   bearerPrefix \o <<"k", "2">>, bearerPrefix \o <<" ", "k">>,
   <<"b", "e", "a", "r", "e", "r", " ", "k", "1">>,
   <<"B", "a", "s", "i", "c", " ", "k", "1">>,
   <<"B", "e", "a", "r", "e", "r", "k", "1">>}

\* a request arriving at the middleware
AuthRequest ==
  \E apiKey \in APIKeys, method \in {"GET", "POST", "HEAD"},
     path \in {"/health", "/health/", "/posts"},
     xAPIKey \in XAPIKeyHeaders, authorization \in AuthorizationHeaders :
    /\ last = NoCall
    /\ last' = APIKey(apiKey, method, path, xAPIKey, authorization) @@ NoCall
    /\ UNCHANGED <<rows, blobs, nextId, nextUUID, pending, publisher>>

NextAuth ==
  \/ Return
  \/ AuthRequest

SpecAuth == Init /\ [][NextAuth]_vars

\* the response is one of the middleware
AuthAnswered == "apiKey" \in DOMAIN last

\* the request carries the configured key: as the value of X-API-Key, or
\* in an Authorization header made of "Bearer " and the key, with white
\* space around the key or none
PresentsKey(r) ==
  \/ r.xAPIKey = r.apiKey
  \/ \E i \in 1..Len(r.authorization) : \E j \in i..Len(r.authorization) :
       /\ HasPrefix(r.authorization, bearerPrefix)
       /\ i > Len(bearerPrefix)
       /\ SubSeq(r.authorization, i, j) = r.apiKey
       /\ \A n \in ((Len(bearerPrefix) + 1)..(i - 1)) \cup ((j + 1)..Len(r.authorization)) :
            IsSpace(r.authorization[n])

\* C39: with a non-empty API key configured, the wrapped handler is called
\* only for GET /health and for requests that present the configured key,
\* in X-API-Key or as a Bearer token; any other request gets 401 and the
\* wrapped handler is not called. With no key configured every request is
\* passed through.
C39_OnlyWithKey ==
  AuthAnswered =>
    /\ last.apiKey = <<>> => last.next
    /\ (last.apiKey # <<>> /\ last.next) =>
          \/ last.method = "GET" /\ last.path = "/health"
          \/ PresentsKey(last)
    /\ ~last.next => last.code = StatusUnauthorized
    /\ last.next => last.code # StatusUnauthorized

\* with a key configured, a request to another path than /health that
\* carries the key as a Bearer token, white space around it, was passed
\* through
C39_Witness ==
  /\ AuthAnswered
  /\ last.apiKey # <<>> /\ last.path = "/posts" /\ last.xAPIKey = <<>>
  /\ last.authorization = bearerPrefix \o <<" ", "k", "1", " ">>
  /\ last.next

\* a request without the key was answered 401
Rejected ==
  /\ AuthAnswered /\ ~last.next /\ last.path = "/health" /\ last.method = "HEAD"

====
